---- MODULE Spec2Model ----
(***************************************************************************)
(* Model of the two-asset AMM of arc-multichain-bridge:                    *)
(*   contracts/contracts/SimplePoolWithLP.sol  (pool engine)               *)
(*   PoolFactory.sol (src/unnamed/part_005)    (pool registry)             *)
(*                                                                         *)
(* A pool call is one EVM transaction.  It is modelled in steps so that    *)
(* the points at which the pool hands control to a token contract (the two *)
(* external transfers of every mutating function) are states of the model: *)
(*   pc = "idle"   no call in progress                                     *)
(*   pc = "xfer1"  inside the call, first token transfer about to execute  *)
(*   pc = "xfer2"  first transfer done, second about to execute            *)
(*   pc = "exit"   second transfer done, control about to return to pool   *)
(*   pc = "done"   the transaction is over; last holds its outcome and     *)
(*                 snap the state it started from                          *)
(* When the pool's tokens have transfer hooks (hooks = TRUE), a hook may   *)
(* call back into the pool at the three inner positions (NestedCall).  A  *)
(* revert anywhere inside the call restores the state saved at entry      *)
(* (snap), as the EVM does.                                                *)
(* Allowances are taken as granted to the pool; a pull fails when the      *)
(* payer's balance is short.                                               *)
(* The pools the registry deploys are instances of the same engine, each   *)
(* with its own storage (store); their calls are single steps (PoolCall).  *)
(***************************************************************************)
EXTENDS Integers, Sequences, FiniteSets, TLC

VARIABLES
    reserveA, reserveB,   \* SimplePoolWithLP.reserveA / reserveB (cached)
    totalSupply,          \* ERC20 totalSupply() of the LP token
    balanceOf,            \* ERC20 balanceOf of the LP token, per account
    balA, balB,           \* tokenA / tokenB ledgers: holder -> balance
    status,               \* ReentrancyGuard flag
    pc,                   \* position of the call in progress
    frame,                \* locals of the call in progress
    snap,                 \* state at entry of the call in progress
    last,                 \* outcome of the transaction that just ended
    nested,               \* outcome of the last call made from a transfer hook
    ops,                  \* number of transactions that took effect so far
    hooks,                \* whether the pool's tokens run transfer hooks
    prev,                 \* the deposit made by the transaction before this one
    pools, allPools,      \* PoolFactory.pools / PoolFactory.allPools
    deployed,             \* constructor arguments of each pool the factory deployed
    lastF,                \* outcome of the registry call that just ended
    snapF,                \* registry state that call started from
    store,                \* storage of each pool the factory deployed, in order
    ledger,               \* balances of each plain token: token -> holder -> amount
    lastP,                \* outcome of the call to a deployed pool that just ended
    calls,                \* calls to deployed pools that took effect so far
    calc,                 \* a function under evaluation: its inputs, locals and result
    bridge                \* useBridge: the hook's state and the bridge call in progress

poolVars == <<reserveA, reserveB, totalSupply, balanceOf, balA, balB, status,
              pc, frame, snap, last, nested, ops, hooks, prev>>
factoryVars == <<pools, allPools, deployed, lastF, snapF, store, ledger, lastP, calls,
                 calc, bridge>>
vars == <<reserveA, reserveB, totalSupply, balanceOf, balA, balB, status,
          pc, frame, snap, last, nested, ops, hooks, prev,
          pools, allPools, deployed, lastF, snapF, store, ledger, lastP, calls,
          calc, bridge>>

(***************************************************************************)
(* Bounds and input sets                                                   *)
(***************************************************************************)
MaxOps == 3            \* transactions per behaviour, tokens without hooks
MaxHookOps == 2        \* transactions per behaviour, tokens with hooks
InitTokens == 4000     \* each actor's opening balance of tokenA and of tokenB
NumTokens == 3         \* non-zero token addresses known to the registry
MaxPools == 2          \* pools the registry deploys per behaviour
MaxPoolCalls == 3      \* calls to deployed pools that take effect per behaviour
MaxSqrtInput == 300    \* _sqrt is evaluated on every input up to this one
AddrDigits == 2        \* hexadecimal digits of a token address in the front end
MaxBridgeCalls == 2    \* calls of bridge() per behaviour

Actors == {"u1", "u2"}
Pool == "pool"
Holders == Actors \cup {Pool}

DepositAmounts == {1, 1001, 2000}
DepositMins == {<<0, 0>>, <<1500, 0>>, <<0, 1500>>}
SwapAmounts == {0, 1, 1000}
SwapMins == {0, 500}
DonateAmounts == {1}
BurnMins == {<<0, 0>>, <<1500, 0>>, <<0, 1500>>}
BurnAmounts(a) == {0, 1, balanceOf[a], balanceOf[a] + 1}
SwapRecipients(a) == {a}
ShareAmounts == {1}

(***************************************************************************)
(* Program constants                                                       *)
(***************************************************************************)
FEE_BPS == 30
MINIMUM_LIQUIDITY == 1000

NOT_ENTERED == "NOT_ENTERED"
ENTERED == "ENTERED"

(***************************************************************************)
(* Results of a computation that may revert                                *)
(***************************************************************************)
Ok(v) == [ok |-> TRUE, err |-> "", v |-> v]
Revert(msg) == [ok |-> FALSE, err |-> msg, v |-> <<>>]

(***************************************************************************)
(* Exact floor(x*y/d) on unbounded naturals (uint256 products never        *)
(* overflow at the modelled magnitudes); the quotient is accumulated over  *)
(* the binary digits of y so that no intermediate value leaves TLC's       *)
(* integer range.  MulDivQR(x,y,d) = <<q,r>> with x*y = q*d + r, r < d,    *)
(* for x < d.                                                              *)
(***************************************************************************)
RECURSIVE MulDivQR(_, _, _)
MulDivQR(x, y, d) ==
    IF y = 0 THEN <<0, 0>>
    ELSE LET h == MulDivQR(x, y \div 2, d)
             t == 2 * h[2] + (y % 2) * x
         IN <<2 * h[1] + (t \div d), t % d>>

MulDiv(x, y, d) == (x \div d) * y + MulDivQR(x % d, y, d)[1]

(***************************************************************************)
(* Pure helpers of SimplePoolWithLP                                        *)
(***************************************************************************)
\* variant: returns the larger argument
_minTakesLarger(a, b) == IF a < b THEN b ELSE a

_min(a, b) == IF a < b THEN a ELSE b

RECURSIVE SqrtLoop(_, _, _)
SqrtLoop(y, z, x) ==
    IF x < z THEN SqrtLoop(y, x, ((y \div x) + x) \div 2) ELSE z

_sqrt(y) ==
    IF y > 3 THEN SqrtLoop(y, y, (y \div 2) + 1)
    ELSE IF y # 0 THEN 1
    ELSE 0

\* variant: a zero input is priced like any other
_getAmountOutAnyInput(amountIn, reserveIn, reserveOut) ==
    IF ~(reserveIn > 0 /\ reserveOut > 0) THEN Revert("Insufficient liquidity")
    ELSE LET amountInWithFee == amountIn * (10000 - FEE_BPS)
             denominator == (reserveIn * 10000) + amountInWithFee
         IN Ok(MulDiv(amountInWithFee, reserveOut, denominator))

\* variant: the fee is added to the input instead of being taken from it
_getAmountOutFeeAdded(amountIn, reserveIn, reserveOut) ==
    IF ~(amountIn > 0) THEN Revert("Insufficient input amount")
    ELSE IF ~(reserveIn > 0 /\ reserveOut > 0) THEN Revert("Insufficient liquidity")
    ELSE LET amountInWithFee == amountIn * (10000 + FEE_BPS)
             denominator == (reserveIn * 10000) + amountInWithFee
         IN Ok(MulDiv(amountInWithFee, reserveOut, denominator))

\* variant: the quotient is rounded up
_getAmountOutCeil(amountIn, reserveIn, reserveOut) ==
    IF ~(amountIn > 0) THEN Revert("Insufficient input amount")
    ELSE IF ~(reserveIn > 0 /\ reserveOut > 0) THEN Revert("Insufficient liquidity")
    ELSE LET amountInWithFee == amountIn * (10000 - FEE_BPS)
             denominator == (reserveIn * 10000) + amountInWithFee
         IN Ok(MulDiv(amountInWithFee, reserveOut, denominator)
               + (IF MulDivQR(amountInWithFee % denominator, reserveOut, denominator)[2] = 0
                  THEN 0 ELSE 1))

_getAmountOut(amountIn, reserveIn, reserveOut) ==
    IF ~(amountIn > 0) THEN Revert("Insufficient input amount")
    ELSE IF ~(reserveIn > 0 /\ reserveOut > 0) THEN Revert("Insufficient liquidity")
    ELSE LET amountInWithFee == amountIn * (10000 - FEE_BPS)
             denominator == (reserveIn * 10000) + amountInWithFee
         IN Ok(MulDiv(amountInWithFee, reserveOut, denominator))

\* variant: the ratio of the reserves is inverted
_quoteInverted(amountA, _reserveA, _reserveB) ==
    IF ~(amountA > 0) THEN Revert("Insufficient amount")
    ELSE IF ~(_reserveA > 0 /\ _reserveB > 0) THEN Revert("Insufficient liquidity")
    ELSE Ok((amountA * _reserveA) \div _reserveB)

_quote(amountA, _reserveA, _reserveB) ==
    IF ~(amountA > 0) THEN Revert("Insufficient amount")
    ELSE IF ~(_reserveA > 0 /\ _reserveB > 0) THEN Revert("Insufficient liquidity")
    ELSE Ok((amountA * _reserveB) \div _reserveA)

\* variant: the reserves are passed in the same order for both directions
getAmountOutSameOrder(amountIn, isTokenA) == _getAmountOut(amountIn, reserveA, reserveB)

\* getAmountOut(amountIn, isTokenA): a view of the cached reserves
getAmountOut(amountIn, isTokenA) ==
    IF isTokenA THEN _getAmountOut(amountIn, reserveA, reserveB)
    ELSE _getAmountOut(amountIn, reserveB, reserveA)

\* getReserves(): a view of the cached reserves
getReserves == <<reserveA, reserveB>>

\* variant: refreshes reserveA only
_updateKeepsB == <<balA[Pool], reserveB>>

\* _update(): the values it stores into reserveA and reserveB
_update == <<balA[Pool], balB[Pool]>>


(***************************************************************************)
(* Ledgers the pool calls into (OpenZeppelin ERC20 / SafeERC20)            *)
(***************************************************************************)
\* IERC20 transfer of amt from one holder to another (balance already checked)
Transfer(bal, from, to, amt) ==
    [bal EXCEPT ![from] = @ - amt, ![to] = @ + amt]

\* ERC20._mint / ERC20._burn on the LP ledger: the new balanceOf
MintTo(bal, who, amt) == [bal EXCEPT ![who] = @ + amt]
BurnFrom(bal, who, amt) == [bal EXCEPT ![who] = @ - amt]

\* The functions of the pool that carry the nonReentrant modifier
GuardedFunctions == {"addLiquidity", "removeLiquidity", "swapAToB", "swapBToA"}
\* The state-mutating external functions of the pool
MutatingFunctions == GuardedFunctions \cup {"sync"}
nonReentrant(fn) == fn \in GuardedFunctions

(***************************************************************************)
(* The part of each mutating function that runs before its first external  *)
(* transfer, as a function of the freshly resynchronised reserves.  The    *)
(* result is a revert, or the two transfers to make, the shares to burn    *)
(* before them, the shares to mint after them and the return values.       *)
(***************************************************************************)
Xfer(tok, from, to, amt) == [tok |-> tok, from |-> from, to |-> to, amt |-> amt]
Plan(t1, t2, burn, mint, ret) ==
    Ok([t1 |-> t1, t2 |-> t2, burn |-> burn, mint |-> mint, ret |-> ret])

\* addLiquidity, lines 94-101: require(liquidity > 0), the two pulls, the mint
addLiquidityPull(sender, amountA, amountB, liquidity) ==
    IF ~(liquidity > 0) THEN Revert("Insufficient liquidity minted")
    ELSE Plan(Xfer("A", sender, Pool, amountA), Xfer("B", sender, Pool, amountB),
              0, liquidity, <<liquidity>>)

\* addLiquidity, lines 84-92: liquidity on a funded pool
\* variant: the share amounts are rounded up
addLiquidityFundedCeil(sender, amountAOptimal, amountBOptimal, _reserveA, _reserveB, supply) ==
    addLiquidityPull(sender, amountAOptimal, amountBOptimal,
                     _min((amountAOptimal * supply + _reserveA - 1) \div _reserveA,
                          (amountBOptimal * supply + _reserveB - 1) \div _reserveB))

addLiquidityFunded(sender, amountAOptimal, amountBOptimal, _reserveA, _reserveB, supply) ==
    addLiquidityPull(sender, amountAOptimal, amountBOptimal,
                     _min((amountAOptimal * supply) \div _reserveA,
                          (amountBOptimal * supply) \div _reserveB))

\* variant: the first deposit mints the locked units too
addLiquidityFirstMintsAll(sender, amountADesired, amountBDesired) ==
    LET totalLiquidity == _sqrt(amountADesired * amountBDesired) IN
    IF ~(totalLiquidity > MINIMUM_LIQUIDITY) THEN Revert("Insufficient liquidity")
    ELSE addLiquidityPull(sender, amountADesired, amountBDesired, totalLiquidity)

\* the first-liquidity branch of addLiquidity
addLiquidityFirst(sender, amountADesired, amountBDesired) ==
    LET totalLiquidity == _sqrt(amountADesired * amountBDesired) IN
    IF ~(totalLiquidity > MINIMUM_LIQUIDITY) THEN Revert("Insufficient liquidity")
    ELSE addLiquidityPull(sender, amountADesired, amountBDesired,
                          totalLiquidity - MINIMUM_LIQUIDITY)

\* variant: the derived amount of B is not compared with amountBMin
addLiquidityPlanNoBMin(sender, amountADesired, amountBDesired, amountAMin, amountBMin, _reserveA, _reserveB, supply) ==
    IF _reserveA = 0 /\ _reserveB = 0 THEN
        addLiquidityFirst(sender, amountADesired, amountBDesired)
    ELSE
        LET qB == _quote(amountADesired, _reserveA, _reserveB) IN
        IF ~qB.ok THEN qB
        ELSE IF qB.v <= amountBDesired THEN
            addLiquidityFunded(sender, amountADesired, qB.v, _reserveA, _reserveB, supply)
        ELSE
            LET qA == _quote(amountBDesired, _reserveB, _reserveA) IN
            IF ~qA.ok THEN qA
            ELSE IF ~(qA.v <= amountADesired /\ qA.v >= amountAMin)
                 THEN Revert("Insufficient A amount")
            ELSE addLiquidityFunded(sender, qA.v, amountBDesired,
                                    _reserveA, _reserveB, supply)

\* variant: the first-deposit branch is taken when no shares exist
addLiquidityPlanBySupply(sender, amountADesired, amountBDesired, amountAMin, amountBMin, _reserveA, _reserveB, supply) ==
    IF supply = 0 THEN
        addLiquidityFirst(sender, amountADesired, amountBDesired)
    ELSE
        LET qB == _quote(amountADesired, _reserveA, _reserveB) IN
        IF ~qB.ok THEN qB
        ELSE IF qB.v <= amountBDesired THEN
            IF ~(qB.v >= amountBMin) THEN Revert("Insufficient B amount")
            ELSE addLiquidityFunded(sender, amountADesired, qB.v,
                                    _reserveA, _reserveB, supply)
        ELSE
            LET qA == _quote(amountBDesired, _reserveB, _reserveA) IN
            IF ~qA.ok THEN qA
            ELSE IF ~(qA.v <= amountADesired /\ qA.v >= amountAMin)
                 THEN Revert("Insufficient A amount")
            ELSE addLiquidityFunded(sender, qA.v, amountBDesired,
                                    _reserveA, _reserveB, supply)

addLiquidityPlan(sender, amountADesired, amountBDesired, amountAMin, amountBMin, _reserveA, _reserveB, supply) ==
    IF _reserveA = 0 /\ _reserveB = 0 THEN
        addLiquidityFirst(sender, amountADesired, amountBDesired)
    ELSE
        LET qB == _quote(amountADesired, _reserveA, _reserveB) IN
        IF ~qB.ok THEN qB
        ELSE IF qB.v <= amountBDesired THEN
            IF ~(qB.v >= amountBMin) THEN Revert("Insufficient B amount")
            ELSE addLiquidityFunded(sender, amountADesired, qB.v,
                                    _reserveA, _reserveB, supply)
        ELSE
            LET qA == _quote(amountBDesired, _reserveB, _reserveA) IN
            IF ~qA.ok THEN qA
            ELSE IF ~(qA.v <= amountADesired /\ qA.v >= amountAMin)
                 THEN Revert("Insufficient A amount")
            ELSE addLiquidityFunded(sender, qA.v, amountBDesired,
                                    _reserveA, _reserveB, supply)

\* variant: the share of a reserve is rounded up
removeLiquidityAmountCeil(liquidity, reserve, _totalSupply) ==
    (liquidity * reserve + _totalSupply - 1) \div _totalSupply

\* (liquidity * reserve) / _totalSupply, the amount paid out of one reserve
removeLiquidityAmount(liquidity, reserve, _totalSupply) ==
    (liquidity * reserve) \div _totalSupply

\* variant: only the amount of A is compared with its minimum
removeLiquidityPlanChecksAOnly(sender, liquidity, amountAMin, amountBMin, to, _reserveA, _reserveB, _totalSupply, senderShares) ==
    IF _totalSupply = 0 THEN Revert("Panic: division by zero")
    ELSE
        LET amountA == removeLiquidityAmount(liquidity, _reserveA, _totalSupply)
            amountB == removeLiquidityAmount(liquidity, _reserveB, _totalSupply)
        IN  IF ~(amountA > 0 /\ amountB > 0) THEN Revert("Insufficient liquidity burned")
            ELSE IF ~(amountA >= amountAMin) THEN Revert("Slippage too high")
            ELSE IF senderShares < liquidity THEN Revert("ERC20InsufficientBalance")
            ELSE Plan(Xfer("A", Pool, to, amountA), Xfer("B", Pool, to, amountB),
                      liquidity, 0, <<amountA, amountB>>)

\* variant: the burn does not compare the amount with the caller's shares
removeLiquidityPlanBurnsAny(sender, liquidity, amountAMin, amountBMin, to, _reserveA, _reserveB, _totalSupply, senderShares) ==
    IF _totalSupply = 0 THEN Revert("Panic: division by zero")
    ELSE
        LET amountA == removeLiquidityAmount(liquidity, _reserveA, _totalSupply)
            amountB == removeLiquidityAmount(liquidity, _reserveB, _totalSupply)
        IN  IF ~(amountA > 0 /\ amountB > 0) THEN Revert("Insufficient liquidity burned")
            ELSE IF ~(amountA >= amountAMin /\ amountB >= amountBMin)
                 THEN Revert("Slippage too high")
            ELSE Plan(Xfer("A", Pool, to, amountA), Xfer("B", Pool, to, amountB),
                      liquidity, 0, <<amountA, amountB>>)

removeLiquidityPlan(sender, liquidity, amountAMin, amountBMin, to, _reserveA, _reserveB, _totalSupply, senderShares) ==
    IF _totalSupply = 0 THEN Revert("Panic: division by zero")
    ELSE
        LET amountA == removeLiquidityAmount(liquidity, _reserveA, _totalSupply)
            amountB == removeLiquidityAmount(liquidity, _reserveB, _totalSupply)
        IN  IF ~(amountA > 0 /\ amountB > 0) THEN Revert("Insufficient liquidity burned")
            ELSE IF ~(amountA >= amountAMin /\ amountB >= amountBMin)
                 THEN Revert("Slippage too high")
            ELSE IF senderShares < liquidity THEN Revert("ERC20InsufficientBalance")
            ELSE Plan(Xfer("A", Pool, to, amountA), Xfer("B", Pool, to, amountB),
                      liquidity, 0, <<amountA, amountB>>)

\* variant: the minimum output is not compared
swapAToBPlanNoMin(sender, amountAIn, amountBOutMin, to, _reserveA, _reserveB) ==
    LET out == _getAmountOut(amountAIn, _reserveA, _reserveB) IN
    IF ~out.ok THEN out
    ELSE Plan(Xfer("A", sender, Pool, amountAIn), Xfer("B", Pool, to, out.v),
              0, 0, <<out.v>>)

swapAToBPlan(sender, amountAIn, amountBOutMin, to, _reserveA, _reserveB) ==
    LET out == _getAmountOut(amountAIn, _reserveA, _reserveB) IN
    IF ~out.ok THEN out
    ELSE IF ~(out.v >= amountBOutMin) THEN Revert("Insufficient output amount")
    ELSE Plan(Xfer("A", sender, Pool, amountAIn), Xfer("B", Pool, to, out.v),
              0, 0, <<out.v>>)

\* variant: the reserves are passed to _getAmountOut in the order of swapAToB
swapBToAPlanSameOrder(sender, amountBIn, amountAOutMin, to, _reserveA, _reserveB) ==
    LET out == _getAmountOut(amountBIn, _reserveA, _reserveB) IN
    IF ~out.ok THEN out
    ELSE IF ~(out.v >= amountAOutMin) THEN Revert("Insufficient output amount")
    ELSE Plan(Xfer("B", sender, Pool, amountBIn), Xfer("A", Pool, to, out.v),
              0, 0, <<out.v>>)

swapBToAPlan(sender, amountBIn, amountAOutMin, to, _reserveA, _reserveB) ==
    LET out == _getAmountOut(amountBIn, _reserveB, _reserveA) IN
    IF ~out.ok THEN out
    ELSE IF ~(out.v >= amountAOutMin) THEN Revert("Insufficient output amount")
    ELSE Plan(Xfer("B", sender, Pool, amountBIn), Xfer("A", Pool, to, out.v),
              0, 0, <<out.v>>)


(***************************************************************************)
(* Bookkeeping records                                                     *)
(***************************************************************************)
NoXfer == Xfer("none", "none", "none", 0)
NoFrame == [fn |-> "none", sender |-> "none", to |-> "none", args |-> <<>>,
            t1 |-> NoXfer, t2 |-> NoXfer, mint |-> 0, ret |-> <<>>, events |-> <<>>]
NoNested == [fn |-> "none", rejected |-> FALSE, events |-> <<>>]
NoLast == [fn |-> "none", ok |-> FALSE, err |-> "", sender |-> "none", to |-> "none",
           args |-> <<>>, ret |-> <<>>, events |-> <<>>]

\* The state a revert restores
Snapshot == [reserveA |-> reserveA, reserveB |-> reserveB, totalSupply |-> totalSupply,
             balanceOf |-> balanceOf, balA |-> balA, balB |-> balB]
NoSnap == [reserveA |-> 0, reserveB |-> 0, totalSupply |-> 0,
           balanceOf |-> [a \in Actors |-> 0], balA |-> [h \in Holders |-> 0],
           balB |-> [h \in Holders |-> 0]]

Receipt(fn, ok, err, sender, to, args, ret) ==
    [fn |-> fn, ok |-> ok, err |-> err, sender |-> sender, to |-> to,
     args |-> args, ret |-> ret, events |-> <<>>]

\* The events of the pool, in the order of emission: those of a call are kept
\* in its frame and handed over with its receipt, those of a call made from a
\* transfer hook with that call's outcome (nested); the events of a call
\* that reverts are discarded with its writes
Sync(_reserveA, _reserveB) == [name |-> "Sync", args |-> <<_reserveA, _reserveB>>]

\* variant: the event is emitted before the reserves are written
_updateEventBeforeWrite == Sync(reserveA, reserveB)

\* emit Sync(reserveA, reserveB) of _update()
_updateEvent == Sync(_update[1], _update[2])

\* emit Mint / Burn / Swap, the last statement of a guarded function
closingEvent(f) ==
    CASE f.fn = "addLiquidity" ->
            [name |-> "Mint", args |-> <<f.sender, f.t1.amt, f.t2.amt>>]
      [] f.fn = "removeLiquidity" ->
            [name |-> "Burn", args |-> <<f.sender, f.t1.amt, f.t2.amt, f.to>>]
      [] f.fn = "swapAToB" ->
            [name |-> "Swap", args |-> <<f.sender, f.t1.amt, 0, 0, f.t2.amt, f.to>>]
      [] OTHER ->
            [name |-> "Swap", args |-> <<f.sender, 0, f.t1.amt, f.t2.amt, 0, f.to>>]

\* What the sender of the next transaction knows of the one before it: the
\* receipt of a deposit that went through and the state it was made in.
\* Kept only in behaviours that start with prev = NoPrev.
Untracked == [tracked |-> FALSE]
NoPrev == [tracked |-> TRUE, last |-> NoLast, snap |-> NoSnap]
Previous ==
    IF ~prev.tracked THEN prev
    ELSE IF last.ok /\ last.fn = "addLiquidity"
         THEN [tracked |-> TRUE, last |-> last, snap |-> snap]
    ELSE NoPrev

Budget == IF hooks THEN MaxHookOps ELSE MaxOps

(***************************************************************************)
(* Entry of a guarded function: nonReentrant, _update(), the computation   *)
(* up to the first transfer, and (removeLiquidity) the burn.  A revert     *)
(* here ends the transaction with nothing changed.                         *)
(***************************************************************************)
Enter(fn, sender, to, args, plan) ==
    /\ pc = "idle"
    /\ status = NOT_ENTERED
    /\ ops < Budget
    /\ snap' = Snapshot
    /\ IF plan.ok
       THEN /\ ops' = ops + 1
            /\ status' = ENTERED
            /\ reserveA' = _update[1]
            /\ reserveB' = _update[2]
            /\ totalSupply' = totalSupply - plan.v.burn
            /\ balanceOf' = BurnFrom(balanceOf, sender, plan.v.burn)
            /\ frame' = [fn |-> fn, sender |-> sender, to |-> to, args |-> args,
                         t1 |-> plan.v.t1, t2 |-> plan.v.t2, mint |-> plan.v.mint,
                         ret |-> plan.v.ret, events |-> <<_updateEvent>>]
            /\ pc' = "xfer1"
            /\ UNCHANGED <<balA, balB, last, nested>>
       ELSE /\ last' = Receipt(fn, FALSE, plan.err, sender, to, args, <<>>)
            /\ pc' = "done"
            /\ UNCHANGED <<reserveA, reserveB, totalSupply, balanceOf, balA, balB,
                           status, frame, nested, ops>>
    /\ UNCHANGED <<hooks, prev, factoryVars>>

addLiquidity(sender, amountADesired, amountBDesired, amountAMin, amountBMin) ==
    Enter("addLiquidity", sender, sender,
          <<amountADesired, amountBDesired, amountAMin, amountBMin>>,
          addLiquidityPlan(sender, amountADesired, amountBDesired, amountAMin,
                           amountBMin, _update[1], _update[2], totalSupply))

\* variant: the amounts are computed on the cached reserves
removeLiquidityCached(sender, liquidity, amountAMin, amountBMin, to) ==
    Enter("removeLiquidity", sender, to, <<liquidity, amountAMin, amountBMin>>,
          removeLiquidityPlan(sender, liquidity, amountAMin, amountBMin, to,
                              reserveA, reserveB, totalSupply, balanceOf[sender]))

removeLiquidity(sender, liquidity, amountAMin, amountBMin, to) ==
    Enter("removeLiquidity", sender, to, <<liquidity, amountAMin, amountBMin>>,
          removeLiquidityPlan(sender, liquidity, amountAMin, amountBMin, to,
                              _update[1], _update[2], totalSupply, balanceOf[sender]))

swapAToB(sender, amountAIn, amountBOutMin, to) ==
    Enter("swapAToB", sender, to, <<amountAIn, amountBOutMin>>,
          swapAToBPlan(sender, amountAIn, amountBOutMin, to, _update[1], _update[2]))

swapBToA(sender, amountBIn, amountAOutMin, to) ==
    Enter("swapBToA", sender, to, <<amountBIn, amountAOutMin>>,
          swapBToAPlan(sender, amountBIn, amountAOutMin, to, _update[1], _update[2]))

(***************************************************************************)
(* A revert inside the call in progress: every write since entry is undone *)
(***************************************************************************)
RevertCall(err) ==
    /\ reserveA' = snap.reserveA
    /\ reserveB' = snap.reserveB
    /\ totalSupply' = snap.totalSupply
    /\ balanceOf' = snap.balanceOf
    /\ balA' = snap.balA
    /\ balB' = snap.balB
    /\ status' = NOT_ENTERED
    /\ pc' = "done"
    /\ last' = Receipt(frame.fn, FALSE, err, frame.sender, frame.to, frame.args, <<>>)
    /\ frame' = NoFrame
    /\ nested' = NoNested
    /\ ops' = ops - 1
    /\ UNCHANGED <<snap, hooks, prev, factoryVars>>

(***************************************************************************)
(* The two external transfers (safeTransferFrom / safeTransfer)            *)
(***************************************************************************)
\* variant: a transfer the ledger refuses is skipped and the call goes on
DoTransferUnchecked(t, nextpc) ==
    /\ balA' = IF t.tok = "A" /\ balA[t.from] >= t.amt
               THEN Transfer(balA, t.from, t.to, t.amt) ELSE balA
    /\ balB' = IF t.tok = "B" /\ balB[t.from] >= t.amt
               THEN Transfer(balB, t.from, t.to, t.amt) ELSE balB
    /\ pc' = nextpc
    /\ UNCHANGED <<reserveA, reserveB, totalSupply, balanceOf, status, frame,
                   snap, last, nested, ops, hooks, prev, factoryVars>>

DoTransfer(t, nextpc) ==
    IF (IF t.tok = "A" THEN balA ELSE balB)[t.from] >= t.amt
    THEN /\ balA' = IF t.tok = "A" THEN Transfer(balA, t.from, t.to, t.amt) ELSE balA
         /\ balB' = IF t.tok = "B" THEN Transfer(balB, t.from, t.to, t.amt) ELSE balB
         /\ pc' = nextpc
         /\ UNCHANGED <<reserveA, reserveB, totalSupply, balanceOf, status, frame,
                        snap, last, nested, ops, hooks, prev, factoryVars>>
    ELSE RevertCall("ERC20InsufficientBalance")

FirstTransfer ==
    /\ pc = "xfer1"
    /\ DoTransfer(frame.t1, "xfer2")

SecondTransfer ==
    /\ pc = "xfer2"
    /\ DoTransfer(frame.t2, "exit")

(***************************************************************************)
(* Return to the pool after the last transfer: _update(), (addLiquidity)   *)
(* _mint, the event, and the nonReentrant modifier's exit.                 *)
(***************************************************************************)
Return ==
    /\ pc = "exit"
    /\ reserveA' = _update[1]
    /\ reserveB' = _update[2]
    /\ totalSupply' = totalSupply + frame.mint
    /\ balanceOf' = MintTo(balanceOf, frame.sender, frame.mint)
    /\ status' = NOT_ENTERED
    /\ pc' = "done"
    /\ last' = [Receipt(frame.fn, TRUE, "", frame.sender, frame.to, frame.args,
                         frame.ret)
                 EXCEPT !.events = frame.events \o <<_updateEvent, closingEvent(frame)>>]
    /\ frame' = NoFrame
    /\ nested' = NoNested
    /\ UNCHANGED <<balA, balB, snap, ops, hooks, prev, factoryVars>>

(***************************************************************************)
(* sync(): no modifier, so it runs at top level and from a transfer hook   *)
(***************************************************************************)
\* variant: sync is refused while no shares exist
syncFundedOnly(sender) ==
    /\ pc = "idle"
    /\ ops < Budget
    /\ snap' = Snapshot
    /\ pc' = "done"
    /\ IF totalSupply > 0
       THEN /\ ops' = ops + 1
            /\ reserveA' = _update[1]
            /\ reserveB' = _update[2]
            /\ last' = [Receipt("sync", TRUE, "", sender, "none", <<>>, <<>>)
                         EXCEPT !.events = <<_updateEvent>>]
       ELSE /\ last' = Receipt("sync", FALSE, "No liquidity", sender, "none", <<>>, <<>>)
            /\ UNCHANGED <<reserveA, reserveB, ops>>
    /\ UNCHANGED <<totalSupply, balanceOf, balA, balB, status, frame, nested>>
    /\ UNCHANGED <<hooks, prev, factoryVars>>

\* variant: only the first account may resynchronise the reserves
syncOwnerOnly(sender) ==
    /\ pc = "idle"
    /\ ops < Budget
    /\ snap' = Snapshot
    /\ pc' = "done"
    /\ IF sender = "u1"
       THEN /\ ops' = ops + 1
            /\ reserveA' = _update[1]
            /\ reserveB' = _update[2]
            /\ last' = [Receipt("sync", TRUE, "", sender, "none", <<>>, <<>>)
                         EXCEPT !.events = <<_updateEvent>>]
       ELSE /\ last' = Receipt("sync", FALSE, "OwnableUnauthorizedAccount", sender,
                               "none", <<>>, <<>>)
            /\ UNCHANGED <<reserveA, reserveB, ops>>
    /\ UNCHANGED <<totalSupply, balanceOf, balA, balB, status, frame, nested>>
    /\ UNCHANGED <<hooks, prev, factoryVars>>

sync(sender) ==
    /\ pc = "idle"
    /\ ops < Budget
    /\ ops' = ops + 1
    /\ snap' = Snapshot
    /\ reserveA' = _update[1]
    /\ reserveB' = _update[2]
    /\ pc' = "done"
    /\ last' = [Receipt("sync", TRUE, "", sender, "none", <<>>, <<>>)
                 EXCEPT !.events = <<_updateEvent>>]
    /\ UNCHANGED <<totalSupply, balanceOf, balA, balB, status, frame, nested>>
    /\ UNCHANGED <<hooks, prev, factoryVars>>

(***************************************************************************)
(* Calls into the pool made by a token's transfer hook while a call is in  *)
(* progress.  A function with the nonReentrant modifier finds the flag set *)
(* and reverts; the hook either swallows that revert or lets it abort the  *)
(* outer call.  A function without the modifier executes.                  *)
(***************************************************************************)
InCall == pc \in {"xfer1", "xfer2", "exit"}

NestedCall(fn, bubble) ==
    /\ hooks
    /\ InCall
    /\ IF nonReentrant(fn) /\ status = ENTERED
       THEN IF bubble
            THEN RevertCall("ReentrancyGuardReentrantCall")
            ELSE /\ nested' = [fn |-> fn, rejected |-> TRUE, events |-> <<>>]
                 /\ UNCHANGED <<reserveA, reserveB, totalSupply, balanceOf, balA, balB,
                                status, pc, frame, snap, last, ops, hooks, prev,
                                factoryVars>>
       ELSE /\ fn = "sync"
            /\ ~bubble
            /\ reserveA' = _update[1]
            /\ reserveB' = _update[2]
            /\ nested' = [fn |-> fn, rejected |-> FALSE, events |-> <<_updateEvent>>]
            /\ UNCHANGED <<totalSupply, balanceOf, balA, balB, status, pc, frame,
                           snap, last, ops, hooks, prev, factoryVars>>

\* The read functions of the pool: none carries a modifier
ViewFunctions == {"getReserves", "getAmountOut", "totalSupply", "balanceOf"}

\* A read of the pool made by a transfer hook: it returns the current values
\* of the storage it reads and changes nothing
NestedView(fn) ==
    /\ hooks
    /\ InCall
    /\ fn \in ViewFunctions
    /\ nested' = [fn |-> fn, rejected |-> FALSE, events |-> <<>>]
    /\ UNCHANGED <<reserveA, reserveB, totalSupply, balanceOf, balA, balB,
                   status, pc, frame, snap, last, ops, hooks, prev, factoryVars>>

\* getAmountOut called in a transaction of its own (an eth_call)
callGetAmountOut(sender, amountIn, isTokenA) ==
    /\ pc = "idle"
    /\ snap' = Snapshot
    /\ pc' = "done"
    /\ last' = Receipt("getAmountOut", getAmountOut(amountIn, isTokenA).ok,
                       getAmountOut(amountIn, isTokenA).err, sender, "none",
                       <<amountIn, isTokenA>>,
                       IF getAmountOut(amountIn, isTokenA).ok
                       THEN <<getAmountOut(amountIn, isTokenA).v>> ELSE <<>>)
    /\ UNCHANGED <<reserveA, reserveB, totalSupply, balanceOf, balA, balB, status,
                   frame, nested, ops>>
    /\ UNCHANGED <<hooks, prev, factoryVars>>

(***************************************************************************)
(* Ledger operations that do not go through the pool                       *)
(***************************************************************************)
\* IERC20(tokenX).transfer(pool, amt) by a third party
DirectTransfer(sender, tok, amt) ==
    /\ pc = "idle"
    /\ ops < Budget
    /\ (IF tok = "A" THEN balA ELSE balB)[sender] >= amt
    /\ ops' = ops + 1
    /\ snap' = Snapshot
    /\ balA' = IF tok = "A" THEN Transfer(balA, sender, Pool, amt) ELSE balA
    /\ balB' = IF tok = "B" THEN Transfer(balB, sender, Pool, amt) ELSE balB
    /\ pc' = "done"
    /\ last' = Receipt("transfer", TRUE, "", sender, Pool, <<tok, amt>>, <<>>)
    /\ UNCHANGED <<reserveA, reserveB, totalSupply, balanceOf, status, frame, nested>>
    /\ UNCHANGED <<hooks, prev, factoryVars>>

\* ERC20 transfer of LP shares between accounts
TransferShares(sender, to, amt) ==
    /\ pc = "idle"
    /\ ops < Budget
    /\ amt > 0
    /\ balanceOf[sender] >= amt
    /\ ops' = ops + 1
    /\ snap' = Snapshot
    /\ balanceOf' = Transfer(balanceOf, sender, to, amt)
    /\ pc' = "done"
    /\ last' = Receipt("transferShares", TRUE, "", sender, to, <<amt>>, <<>>)
    /\ UNCHANGED <<reserveA, reserveB, totalSupply, balA, balB, status, frame, nested>>
    /\ UNCHANGED <<hooks, prev, factoryVars>>

(***************************************************************************)
(* PoolFactory.  Token addresses are 0..NumTokens, 0 being address(0); the *)
(* n-th pool deployed gets the fresh address NumTokens + n.  A pool is an  *)
(* ERC20 token too (its shares), so its address may be given to createPool.*)
(***************************************************************************)
Tokens == 0..NumTokens
NoPool == 0
PoolAddress(n) == NumTokens + n
PoolAddresses == {PoolAddress(n) : n \in 1..MaxPools}
Addresses == Tokens \cup PoolAddresses
NoCalc == [fn |-> "none", pc |-> "none"]
NoBridge == [pc |-> "none"]
NoLastF == [fn |-> "none", ok |-> FALSE, err |-> "", args |-> <<>>, ret |-> NoPool, events |-> <<>>]
NoSnapF == [pools |-> [x \in Addresses |-> [y \in Addresses |-> NoPool]], allPools |-> <<>>]
SnapshotF == [pools |-> pools, allPools |-> allPools]

\* Accounts: the registry itself (msg.sender of every pool's constructor),
\* one user, and the pools, which hold tokens and each other's shares
Factory == NumTokens + MaxPools + 1
User == Factory + 1
AccountHolders == PoolAddresses \cup {Factory, User}

\* constructor(address _tokenA, address _tokenB) ... Ownable(msg.sender)
NewPool(_tokenA, _tokenB, sender) ==
    [tokenA |-> _tokenA, tokenB |-> _tokenB, owner |-> sender,
     reserveA |-> 0, reserveB |-> 0, totalSupply |-> 0,
     balanceOf |-> [h \in AccountHolders |-> 0]]

\* variant: the pair is kept in the order of the arguments
SortTokensAsGiven(tokenA, tokenB) == <<tokenA, tokenB>>

\* (token0, token1) = tokenA < tokenB ? (tokenA, tokenB) : (tokenB, tokenA)
SortTokens(tokenA, tokenB) ==
    IF tokenA < tokenB THEN <<tokenA, tokenB>> ELSE <<tokenB, tokenA>>

\* variant: the check reads the entry of the pair (token0, token0)
poolExistsSameToken(token0, token1) == pools[token0][token0] # NoPool

\* the negation of require(pools[token0][token1] == address(0), "Pool exists")
poolExists(token0, token1) == pools[token0][token1] # NoPool

\* variant: only the sorted direction is recorded
recordPoolOneWay(token0, token1, pool) ==
    [pools EXCEPT ![token0][token1] = pool]

\* pools[token0][token1] = pool; pools[token1][token0] = pool
recordPool(token0, token1, pool) ==
    [pools EXCEPT ![token0][token1] = pool, ![token1][token0] = pool]

\* variant: the new pool is put in front of the list
pushPoolFront(pool) == <<pool>> \o allPools

\* the pools of a list
PoolsOf(list) == {list[i] : i \in 1..Len(list)}

\* allPools.push(pool)
pushPool(pool) == Append(allPools, pool)

\* the view function allPoolsLength
allPoolsLength == Len(allPools)

\* the getter of the public array allPools, indexed from 0; it reverts out of
\* bounds, which answers no pool
allPoolsAt(i) == IF i >= 0 /\ i < Len(allPools) THEN allPools[i + 1] ELSE NoPool

\* event PoolCreated(address indexed tokenA, address indexed tokenB, address pool, uint256)
PoolCreated(token0, token1, pool, n) ==
    [name |-> "PoolCreated", tokenA |-> token0, tokenB |-> token1, pool |-> pool, n |-> n]

\* variant: the event is emitted before the push
emitPoolCreatedBeforePush(token0, token1, pool, list) ==
    <<PoolCreated(token0, token1, pool, Len(list) - 1)>>

\* emit PoolCreated(token0, token1, pool, allPools.length), list being allPools
\* after the push
emitPoolCreated(token0, token1, pool, list) ==
    <<PoolCreated(token0, token1, pool, Len(list))>>

\* the view function getPool
getPool(tokenA, tokenB) ==
    pools[SortTokens(tokenA, tokenB)[1]][SortTokens(tokenA, tokenB)[2]]

\* variant: the zero address is accepted
createPoolErrorZeroAccepted(tokenA, tokenB) ==
    IF ~(tokenA # tokenB) THEN "Identical tokens"
    ELSE IF poolExists(SortTokens(tokenA, tokenB)[1], SortTokens(tokenA, tokenB)[2])
         THEN "Pool exists"
    ELSE ""

\* the checks of createPool, in the order of the code: "" when all pass
createPoolError(tokenA, tokenB) ==
    IF ~(tokenA # tokenB) THEN "Identical tokens"
    ELSE IF ~(tokenA # 0 /\ tokenB # 0) THEN "Zero address"
    ELSE IF poolExists(SortTokens(tokenA, tokenB)[1], SortTokens(tokenA, tokenB)[2])
         THEN "Pool exists"
    ELSE ""

createPool(tokenA, tokenB) ==
    /\ pc = "idle"
    /\ snapF' = SnapshotF
    /\ pc' = "done"
    /\ IF createPoolError(tokenA, tokenB) = ""
       THEN LET token0 == SortTokens(tokenA, tokenB)[1]
                token1 == SortTokens(tokenA, tokenB)[2]
                pool == PoolAddress(Len(allPools) + 1)
            IN  /\ Len(allPools) < MaxPools
                /\ deployed' = Append(deployed, <<token0, token1>>)
                /\ store' = Append(store, NewPool(token0, token1, Factory))
                /\ pools' = recordPool(token0, token1, pool)
                /\ allPools' = pushPool(pool)
                /\ lastF' = [fn |-> "createPool", ok |-> TRUE, err |-> "",
                             args |-> <<tokenA, tokenB>>, ret |-> pool,
                             events |-> emitPoolCreated(token0, token1, pool,
                                                        pushPool(pool))]
       ELSE /\ lastF' = [fn |-> "createPool", ok |-> FALSE,
                         err |-> createPoolError(tokenA, tokenB),
                         args |-> <<tokenA, tokenB>>, ret |-> NoPool,
                         events |-> <<>>]
            /\ UNCHANGED <<pools, allPools, deployed, store>>
    /\ UNCHANGED <<reserveA, reserveB, totalSupply, balanceOf, balA, balB, status,
                   frame, snap, last, nested, ops, hooks, prev, ledger, lastP, calls,
                   calc, bridge>>

callGetPool(tokenA, tokenB) ==
    /\ pc = "idle"
    /\ snapF' = SnapshotF
    /\ pc' = "done"
    /\ lastF' = [fn |-> "getPool", ok |-> TRUE, err |-> "",
                 args |-> <<tokenA, tokenB>>, ret |-> getPool(tokenA, tokenB),
                 events |-> <<>>]
    /\ UNCHANGED <<pools, allPools, deployed, store, ledger, lastP, calls, calc, bridge>>
    /\ UNCHANGED <<reserveA, reserveB, totalSupply, balanceOf, balA, balB, status,
                   frame, snap, last, nested, ops, hooks, prev>>

(***************************************************************************)
(* The pools the factory deployed.  Each is an instance of the engine with *)
(* its own storage (store[i], address PoolAddress(i)); its two tokens are  *)
(* plain tokens (ledger) or the share tokens of pools deployed before it.  *)
(* The tokens run no hooks, so a call is one atomic step: _update(), the   *)
(* computation, the burn, the two transfers, _update() and the mint, or a *)
(* revert that changes nothing.                                            *)
(***************************************************************************)
NoLastP == [pool |-> NoPool, fn |-> "none", ok |-> FALSE, err |-> "", sender |-> NoPool,
            to |-> NoPool, ret |-> <<>>]
World == [store |-> store, ledger |-> ledger]
IndexOf(pool) == pool - NumTokens

\* IERC20(token).balanceOf(holder)
balanceIn(W, token, holder) ==
    IF token \in PoolAddresses THEN W.store[IndexOf(token)].balanceOf[holder]
    ELSE W.ledger[token][holder]

\* IERC20(token).transfer / transferFrom of amt (balance already checked)
transferIn(W, token, from, to, amt) ==
    IF token \in PoolAddresses
    THEN [W EXCEPT !.store[IndexOf(token)].balanceOf = Transfer(@, from, to, amt)]
    ELSE [W EXCEPT !.ledger[token] = Transfer(@, from, to, amt)]

\* variant: the reserves are read at the address of the first pool deployed
updateInFirstPool(W, i) ==
    [W EXCEPT !.store[1].reserveA = balanceIn(W, W.store[i].tokenA, PoolAddress(i)),
              !.store[1].reserveB = balanceIn(W, W.store[i].tokenB, PoolAddress(i))]

\* _update() of the i-th pool
updateIn(W, i) ==
    [W EXCEPT !.store[i].reserveA = balanceIn(W, W.store[i].tokenA, PoolAddress(i)),
              !.store[i].reserveB = balanceIn(W, W.store[i].tokenB, PoolAddress(i))]

\* variant: sync is reserved to the owner
onlyOwnerSync(fn) == fn = "sync"

\* the functions of the pool that carry the onlyOwner modifier: none
onlyOwner(fn) == FALSE

\* the reserves the i-th pool computes with, after its entry _update()
syncedReserves(i) ==
    <<updateIn(World, i).store[i].reserveA, updateIn(World, i).store[i].reserveB>>

\* the account a role of a plan stands for
Resolve(role, i, sender, to) ==
    CASE role = "sender" -> sender
      [] role = "to" -> to
      [] OTHER -> PoolAddress(i)

\* one safeTransfer / safeTransferFrom of the i-th pool
transferStep(R, i, sender, to, t) ==
    IF ~R.ok THEN R
    ELSE LET token == IF t.tok = "A" THEN R.v.store[i].tokenA ELSE R.v.store[i].tokenB
             from == Resolve(t.from, i, sender, to)
         IN  IF balanceIn(R.v, token, from) >= t.amt
             THEN Ok(transferIn(R.v, token, from, Resolve(t.to, i, sender, to), t.amt))
             ELSE Revert("ERC20InsufficientBalance")

\* the body of a mutating function of the i-th pool from its entry _update()
execute(i, sender, to, plan) ==
    IF ~plan.ok THEN plan
    ELSE LET W0 == updateIn(World, i)
             W1 == [W0 EXCEPT !.store[i].totalSupply = @ - plan.v.burn,
                              !.store[i].balanceOf = BurnFrom(@, sender, plan.v.burn)]
             R == transferStep(transferStep(Ok(W1), i, sender, to, plan.v.t1),
                               i, sender, to, plan.v.t2)
         IN  IF ~R.ok THEN R
             ELSE Ok([updateIn(R.v, i) EXCEPT
                        !.store[i].totalSupply = @ + plan.v.mint,
                        !.store[i].balanceOf = MintTo(@, sender, plan.v.mint)])

\* a call of fn on the i-th pool by sender; body is the outcome of the
\* function's body, a revert or the storage and ledgers it leaves
PoolCall(i, fn, sender, to, body, ret) ==
    /\ pc = "idle"
    /\ calls < MaxPoolCalls
    /\ i \in 1..Len(store)
    /\ LET R == IF onlyOwner(fn) /\ sender # store[i].owner
                THEN Revert("OwnableUnauthorizedAccount")
                ELSE body
       IN  /\ store' = IF R.ok THEN R.v.store ELSE store
           /\ ledger' = IF R.ok THEN R.v.ledger ELSE ledger
           /\ calls' = IF R.ok THEN calls + 1 ELSE calls
           /\ lastP' = [pool |-> PoolAddress(i), fn |-> fn, ok |-> R.ok, err |-> R.err,
                        sender |-> sender, to |-> to,
                        ret |-> IF R.ok THEN ret ELSE <<>>]
    /\ pc' = "done"
    /\ UNCHANGED <<reserveA, reserveB, totalSupply, balanceOf, balA, balB, status,
                   frame, snap, last, nested, ops, hooks, prev,
                   pools, allPools, deployed, lastF, snapF, calc, bridge>>

PoolCallPlan(i, fn, sender, to, plan) ==
    PoolCall(i, fn, sender, to, execute(i, sender, to, plan),
             IF plan.ok THEN plan.v.ret ELSE <<>>)

poolAddLiquidity(i, sender, amountADesired, amountBDesired, amountAMin, amountBMin) ==
    PoolCallPlan(i, "addLiquidity", sender, sender,
                 addLiquidityPlan("sender", amountADesired, amountBDesired, amountAMin,
                                  amountBMin, syncedReserves(i)[1], syncedReserves(i)[2],
                                  store[i].totalSupply))

poolRemoveLiquidity(i, sender, liquidity, amountAMin, amountBMin, to) ==
    PoolCallPlan(i, "removeLiquidity", sender, to,
                 removeLiquidityPlan("sender", liquidity, amountAMin, amountBMin, "to",
                                     syncedReserves(i)[1], syncedReserves(i)[2],
                                     store[i].totalSupply, store[i].balanceOf[sender]))

poolSwapAToB(i, sender, amountAIn, amountBOutMin, to) ==
    PoolCallPlan(i, "swapAToB", sender, to,
                 swapAToBPlan("sender", amountAIn, amountBOutMin, "to",
                              syncedReserves(i)[1], syncedReserves(i)[2]))

poolSwapBToA(i, sender, amountBIn, amountAOutMin, to) ==
    PoolCallPlan(i, "swapBToA", sender, to,
                 swapBToAPlan("sender", amountBIn, amountAOutMin, "to",
                              syncedReserves(i)[1], syncedReserves(i)[2]))

poolSync(i, sender) ==
    PoolCall(i, "sync", sender, NoPool, Ok(updateIn(World, i)), <<>>)

(***************************************************************************)
(* The transaction's outcome has been delivered; the next one may start    *)
(***************************************************************************)
NextTransaction ==
    /\ pc = "done"
    /\ pc' = "idle"
    /\ prev' = Previous
    /\ last' = NoLast
    /\ snap' = NoSnap
    /\ lastF' = NoLastF
    /\ snapF' = NoSnapF
    /\ lastP' = NoLastP
    /\ UNCHANGED <<reserveA, reserveB, totalSupply, balanceOf, balA, balB, status,
                   frame, nested, ops, hooks, pools, allPools, deployed,
                   store, ledger, calls, calc, bridge>>

(***************************************************************************)
(* The pool engine: initial state and next-state relation                  *)
(***************************************************************************)
InitPool ==
    /\ reserveA = 0
    /\ reserveB = 0
    /\ totalSupply = 0
    /\ balanceOf = [a \in Actors |-> 0]
    /\ balA = [h \in Holders |-> IF h = Pool THEN 0 ELSE InitTokens]
    /\ balB = [h \in Holders |-> IF h = Pool THEN 0 ELSE InitTokens]
    /\ status = NOT_ENTERED
    /\ pc = "idle"
    /\ frame = NoFrame
    /\ snap = NoSnap
    /\ last = NoLast
    /\ nested = NoNested
    /\ ops = 0

InitFactory ==
    /\ pools = [x \in Addresses |-> [y \in Addresses |-> NoPool]]
    /\ allPools = <<>>
    /\ deployed = <<>>
    /\ lastF = NoLastF
    /\ snapF = NoSnapF
    /\ store = <<>>
    /\ ledger = [t \in 1..NumTokens |-> [h \in AccountHolders |-> IF h = User THEN InitTokens ELSE 0]]
    /\ lastP = NoLastP
    /\ calls = 0

\* no function is under evaluation and the bridge hook is not mounted
InitClient == calc = NoCalc /\ bridge = NoBridge

Init == InitPool /\ hooks = FALSE /\ prev = Untracked /\ InitFactory /\ InitClient

CallAddLiquidity ==
    \E sender \in Actors, aD \in DepositAmounts, bD \in DepositAmounts,
       mins \in DepositMins :
        addLiquidity(sender, aD, bD, mins[1], mins[2])

CallRemoveLiquidity ==
    \E sender \in Actors, to \in Holders, mins \in BurnMins :
        \E liquidity \in BurnAmounts(sender) :
            removeLiquidity(sender, liquidity, mins[1], mins[2], to)

CallSwapAToB ==
    \E sender \in Actors, amt \in SwapAmounts, m \in SwapMins :
        \E to \in SwapRecipients(sender) : swapAToB(sender, amt, m, to)

CallSwapBToA ==
    \E sender \in Actors, amt \in SwapAmounts, m \in SwapMins :
        \E to \in SwapRecipients(sender) : swapBToA(sender, amt, m, to)

CallSync == \E sender \in Actors : sync(sender)

QuoteAmounts == {0, 1000}
CallGetAmountOut ==
    \E amt \in QuoteAmounts, isTokenA \in BOOLEAN : callGetAmountOut("u1", amt, isTokenA)

Hook ==
    \/ \E fn \in MutatingFunctions, bubble \in BOOLEAN : NestedCall(fn, bubble)
    \/ \E fn \in ViewFunctions : NestedView(fn)

CallDirectTransfer ==
    \E sender \in Actors, tok \in {"A", "B"}, amt \in DonateAmounts :
        DirectTransfer(sender, tok, amt)

CallTransferShares ==
    \E sender \in Actors, to \in Actors, amt \in ShareAmounts :
        to # sender /\ TransferShares(sender, to, amt)

Next ==
    \/ CallAddLiquidity
    \/ CallRemoveLiquidity
    \/ CallSwapAToB
    \/ CallSwapBToA
    \/ CallSync
    \/ CallGetAmountOut
    \/ FirstTransfer
    \/ SecondTransfer
    \/ Return
    \/ CallDirectTransfer
    \/ CallTransferShares
    \/ NextTransaction

\* Tokens without transfer hooks (plain ERC20, as the tokens the DEX is deployed with)
Spec == Init /\ [][Next]_vars

\* The registry
CallCreatePool == \E tokenA \in Tokens, tokenB \in Tokens : createPool(tokenA, tokenB)
CallGetPool == \E tokenA \in Tokens, tokenB \in Tokens : callGetPool(tokenA, tokenB)
NextFactory ==
    \/ CallCreatePool
    \/ CallGetPool
    \/ NextTransaction
SpecFactory == Init /\ [][NextFactory]_vars

\* The registry and the pools it deployed, called by one user and by the
\* registry's own account, the pools' owner
PoolTokens == {1, 2} \cup PoolsOf(allPools)
PoolCallers == {User, Factory}
PoolDeposits == {<<2000, 2000>>, <<2000, 1000>>}
PoolSwapAmounts == {1000}
PoolRecipients(sender) == {sender} \cup PoolsOf(allPools)
CallCreatePoolOf == \E tokenA \in PoolTokens, tokenB \in PoolTokens : createPool(tokenA, tokenB)
CallPoolAddLiquidity ==
    \E i \in 1..Len(store), sender \in PoolCallers, d \in PoolDeposits :
        poolAddLiquidity(i, sender, d[1], d[2], 0, 0)
CallPoolRemoveLiquidity ==
    \E i \in 1..Len(store), sender \in PoolCallers :
        \E to \in PoolRecipients(sender) :
            poolRemoveLiquidity(i, sender, store[i].balanceOf[sender], 0, 0, to)
CallPoolSwapAToB ==
    \E i \in 1..Len(store), sender \in PoolCallers, amt \in PoolSwapAmounts :
        \E to \in PoolRecipients(sender) : poolSwapAToB(i, sender, amt, 0, to)
CallPoolSwapBToA ==
    \E i \in 1..Len(store), sender \in PoolCallers, amt \in PoolSwapAmounts :
        \E to \in PoolRecipients(sender) : poolSwapBToA(i, sender, amt, 0, to)
CallPoolSync == \E i \in 1..Len(store), sender \in PoolCallers : poolSync(i, sender)
NextPools ==
    \/ CallCreatePoolOf
    \/ CallPoolAddLiquidity
    \/ CallPoolRemoveLiquidity
    \/ CallPoolSwapAToB
    \/ CallPoolSwapBToA
    \/ CallPoolSync
    \/ NextTransaction
SpecPools == Init /\ [][NextPools]_vars

\* Tokens whose transfers call back into the pool
InitHooks == InitPool /\ hooks = TRUE /\ prev = Untracked /\ InitFactory /\ InitClient
NextHooks == Next \/ Hook
SpecHooks == InitHooks /\ [][NextHooks]_vars

\* Deposits, withdrawals, swaps and direct transfers, each transaction
\* knowing the deposit made just before it
InitRoundTrip == InitPool /\ hooks = FALSE /\ prev = NoPrev /\ InitFactory /\ InitClient
NextRoundTrip ==
    \/ CallSwapAToB
    \/ CallSwapBToA
    \/ CallAddLiquidity
    \/ CallRemoveLiquidity
    \/ CallDirectTransfer
    \/ FirstTransfer
    \/ SecondTransfer
    \/ Return
    \/ NextTransaction
SpecRoundTrip == InitRoundTrip /\ [][NextRoundTrip]_vars

(***************************************************************************)
(* _sqrt(y), statement by statement: calc holds the argument y, the        *)
(* result variable z, the local x and the position in the function         *)
(***************************************************************************)
\* every small input, and the products a first deposit passes to _sqrt
SqrtInputs == (0..MaxSqrtInput) \cup {a * b : a \in DepositAmounts, b \in DepositAmounts}

\* the call: z is the zero-initialised return variable
_sqrtCall(y) == [fn |-> "_sqrt", pc |-> "if", y |-> y, z |-> 0, x |-> 0]

\* if (y > 3) { z = y; x = y / 2 + 1; ... } else if (y != 0) { z = 1; }
_sqrtIf ==
    /\ calc.fn = "_sqrt"
    /\ calc.pc = "if"
    /\ calc' = IF calc.y > 3
               THEN [calc EXCEPT !.z = calc.y, !.x = (calc.y \div 2) + 1, !.pc = "while"]
               ELSE IF calc.y # 0
               THEN [calc EXCEPT !.z = 1, !.pc = "return"]
               ELSE [calc EXCEPT !.pc = "return"]
    /\ UNCHANGED <<poolVars, hooks, prev, pools, allPools, deployed, lastF, snapF,
                   store, ledger, lastP, calls, bridge>>

\* variant: the average of x and y / x is rounded up
_sqrtWhileRoundUp ==
    /\ calc.fn = "_sqrt"
    /\ calc.pc = "while"
    /\ calc.x < calc.z
    /\ calc' = [calc EXCEPT !.z = calc.x,
                            !.x = ((calc.y \div calc.x) + calc.x + 1) \div 2]
    /\ UNCHANGED <<poolVars, hooks, prev, pools, allPools, deployed, lastF, snapF,
                   store, ledger, lastP, calls, bridge>>

\* while (x < z) { z = x; x = (y / x + x) / 2; }: one iteration
_sqrtWhile ==
    /\ calc.fn = "_sqrt"
    /\ calc.pc = "while"
    /\ calc.x < calc.z
    /\ calc' = [calc EXCEPT !.z = calc.x,
                            !.x = ((calc.y \div calc.x) + calc.x) \div 2]
    /\ UNCHANGED <<poolVars, hooks, prev, pools, allPools, deployed, lastF, snapF,
                   store, ledger, lastP, calls, bridge>>

\* the loop condition is false: the function returns z
_sqrtReturn ==
    /\ calc.fn = "_sqrt"
    /\ calc.pc = "while"
    /\ ~(calc.x < calc.z)
    /\ calc' = [calc EXCEPT !.pc = "return"]
    /\ UNCHANGED <<poolVars, hooks, prev, pools, allPools, deployed, lastF, snapF,
                   store, ledger, lastP, calls, bridge>>

InitSqrt ==
    /\ InitPool /\ hooks = FALSE /\ prev = Untracked /\ InitFactory
    /\ bridge = NoBridge
    /\ calc \in {_sqrtCall(y) : y \in SqrtInputs}
NextSqrt ==
    \/ _sqrtIf
    \/ _sqrtWhile
    \/ _sqrtReturn
\* the EVM runs a call to its end: no evaluation stops while a statement is left
SpecSqrt == InitSqrt /\ [][NextSqrt]_vars /\ WF_vars(NextSqrt)

(***************************************************************************)
(* useDEX: token addresses are strings "0x..." of hexadecimal digits in    *)
(* either case; the hook orders two of them by JavaScript's < on their     *)
(* lower-cased text, the contracts by their value as numbers               *)
(***************************************************************************)
DecDigits == <<"0", "1", "2", "3", "4", "5", "6", "7", "8", "9">>
LowerHex == <<"a", "b", "c", "d", "e", "f">>
UpperHex == <<"A", "B", "C", "D", "E", "F">>
InSeq(seq, c) == \E i \in DOMAIN seq : seq[i] = c
PlaceIn(seq, c) == CHOOSE i \in DOMAIN seq : seq[i] = c

\* the UTF-16 code unit of a character of an address
charCodeAt(c) ==
    IF InSeq(DecDigits, c) THEN 47 + PlaceIn(DecDigits, c)
    ELSE IF InSeq(UpperHex, c) THEN 64 + PlaceIn(UpperHex, c)
    ELSE IF InSeq(LowerHex, c) THEN 96 + PlaceIn(LowerHex, c)
    ELSE 120

\* variant: the text is compared as written
toLowerCaseAsWritten(str) == str

\* String.prototype.toLowerCase
toLowerCase(str) ==
    [i \in DOMAIN str |->
        IF InSeq(UpperHex, str[i]) THEN LowerHex[PlaceIn(UpperHex, str[i])] ELSE str[i]]

\* a < b on two strings: by code unit at the first difference, a proper
\* prefix being smaller
RECURSIVE StringLess(_, _)
StringLess(a, b) ==
    IF b = <<>> THEN FALSE
    ELSE IF a = <<>> THEN TRUE
    ELSE IF charCodeAt(Head(a)) # charCodeAt(Head(b))
         THEN charCodeAt(Head(a)) < charCodeAt(Head(b))
    ELSE StringLess(Tail(a), Tail(b))

\* the value of a hexadecimal digit, and of the digits after "0x": the
\* address the ABI encoding hands to the contracts
hexValue(c) ==
    IF InSeq(DecDigits, c) THEN PlaceIn(DecDigits, c) - 1
    ELSE IF InSeq(UpperHex, c) THEN 9 + PlaceIn(UpperHex, c)
    ELSE 9 + PlaceIn(LowerHex, c)
RECURSIVE hexToUint(_)
hexToUint(digits) ==
    IF digits = <<>> THEN 0
    ELSE 16 * hexToUint(SubSeq(digits, 1, Len(digits) - 1)) + hexValue(digits[Len(digits)])
addressOf(str) == hexToUint(SubSeq(str, 3, Len(str)))

\* the digits an address of the token list is written with
AddressChars == {"0", "9", "a", "A", "F"}
AddressStrings == {<<"0", "x">> \o d : d \in [1..AddrDigits -> AddressChars]}
\* what stands between a call of swap and its writeContract
Scenarios == {"ready", "disconnected", "no pool", "no allowance"}

\* tokenAAddr.toLowerCase() < tokenBAddr.toLowerCase()
isTokenAFirst(tokenAAddr, tokenBAddr) ==
    StringLess(toLowerCase(tokenAAddr), toLowerCase(tokenBAddr))

\* getPoolAddress: the arguments it passes to getPool of the factory
sortedTokens(tokenAAddr, tokenBAddr) ==
    IF isTokenAFirst(tokenAAddr, tokenBAddr) THEN <<tokenAAddr, tokenBAddr>>
    ELSE <<tokenBAddr, tokenAAddr>>

dexCall(fn, tokenA, tokenB, scenario) ==
    [fn |-> fn, pc |-> "called", tokenA |-> tokenA, tokenB |-> tokenB,
     scenario |-> scenario, getPoolArgs |-> <<>>, functionName |-> "none",
     isTokenA |-> FALSE, quoted |-> FALSE, err |-> ""]

\* swap, up to the answer of getPoolAddress
swapGetPoolAddress ==
    /\ calc.fn = "swap"
    /\ calc.pc = "called"
    /\ calc' = IF calc.scenario = "disconnected"
               THEN [calc EXCEPT !.pc = "thrown", !.err = "Wallet not connected"]
               ELSE IF calc.scenario = "no pool"
               THEN [calc EXCEPT !.pc = "thrown",
                                 !.getPoolArgs = sortedTokens(calc.tokenA, calc.tokenB),
                                 !.err = "Pool not found. Create the pool first."]
               ELSE [calc EXCEPT !.pc = "pool",
                                 !.getPoolArgs = sortedTokens(calc.tokenA, calc.tokenB)]
    /\ UNCHANGED <<poolVars, hooks, prev, pools, allPools, deployed, lastF, snapF,
                   store, ledger, lastP, calls, bridge>>

\* swap, from the allowance check to writeContract
swapWriteContract ==
    /\ calc.fn = "swap"
    /\ calc.pc = "pool"
    /\ calc' = IF calc.scenario = "no allowance"
               THEN [calc EXCEPT !.pc = "thrown",
                                 !.err = "Insufficient allowance. Please approve first."]
               ELSE [calc EXCEPT !.pc = "written",
                                 !.functionName =
                                     IF isTokenAFirst(calc.tokenA, calc.tokenB)
                                     THEN "swapAToB" ELSE "swapBToA"]
    /\ UNCHANGED <<poolVars, hooks, prev, pools, allPools, deployed, lastF, snapF,
                   store, ledger, lastP, calls, bridge>>

\* useSwapOutput: the pool of the pair and the side passed to getAmountOut;
\* the read is made only when usePoolAddress found a pool
useSwapOutput ==
    /\ calc.fn = "useSwapOutput"
    /\ calc.pc = "called"
    /\ calc' = [calc EXCEPT !.pc = "rendered",
                            !.getPoolArgs = sortedTokens(calc.tokenA, calc.tokenB),
                            !.isTokenA = isTokenAFirst(calc.tokenA, calc.tokenB),
                            !.quoted = (calc.scenario # "no pool")]
    /\ UNCHANGED <<poolVars, hooks, prev, pools, allPools, deployed, lastF, snapF,
                   store, ledger, lastP, calls, bridge>>

\* two tokens of different address, in either order, and a call of swap or
\* a rendering of useSwapOutput for them
InitDex ==
    /\ InitPool /\ hooks = FALSE /\ prev = Untracked /\ InitFactory
    /\ bridge = NoBridge
    /\ \E tokenA \in AddressStrings, tokenB \in AddressStrings :
          /\ addressOf(tokenA) # addressOf(tokenB)
          /\ \/ \E sc \in Scenarios : calc = dexCall("swap", tokenA, tokenB, sc)
             \/ \E sc \in {"ready", "no pool"} :
                    calc = dexCall("useSwapOutput", tokenA, tokenB, sc)
NextDex ==
    \/ swapGetPoolAddress
    \/ swapWriteContract
    \/ useSwapOutput
SpecDex == InitDex /\ [][NextDex]_vars

(***************************************************************************)
(* useBridge: the hook's state, and the call of bridge() in progress with  *)
(* what it has done so far.  Texts are sequences of characters.            *)
(***************************************************************************)
Undefined == "undefined"
Null == "null"

\* the amounts typed: "", "0", " 0", "1", "0.5", "-1", "abc", "1abc"
Amounts ==
    { <<>>, <<"0">>, <<" ", "0">>, <<"1">>, <<"0", ".", "5">>, <<"-", "1">>,
      <<"a", "b", "c">>, <<"1", "a", "b", "c">> }

RECURSIVE DigitsPrefix(_)
DigitsPrefix(str) ==
    IF str # <<>> /\ InSeq(DecDigits, Head(str)) THEN <<Head(str)>> \o DigitsPrefix(Tail(str))
    ELSE <<>>
RECURSIVE TrimStart(_)
TrimStart(str) == IF str # <<>> /\ Head(str) = " " THEN TrimStart(Tail(str)) ELSE str
RECURSIVE decToUint(_)
decToUint(digits) ==
    IF digits = <<>> THEN 0
    ELSE 10 * decToUint(SubSeq(digits, 1, Len(digits) - 1))
         + (PlaceIn(DecDigits, digits[Len(digits)]) - 1)

\* parseFloat: leading blanks are skipped, then the longest prefix that is
\* a decimal literal (sign, digits, point, digits) is converted and the
\* rest ignored; NaN when there is no such prefix.  The value is
\* (-1)^neg * mantissa / 10^scale.  Exponents and "Infinity" do not occur
\* in Amounts.
NaN == [nan |-> TRUE, neg |-> FALSE, mantissa |-> 0, scale |-> 0]
parseFloat(str) ==
    LET t == TrimStart(str)
        signed == t # <<>> /\ Head(t) \in {"-", "+"}
        u == IF signed THEN Tail(t) ELSE t
        int == DigitsPrefix(u)
        rest == SubSeq(u, Len(int) + 1, Len(u))
        frac == IF rest # <<>> /\ Head(rest) = "." THEN DigitsPrefix(Tail(rest)) ELSE <<>>
    IN IF int = <<>> /\ frac = <<>> THEN NaN
       ELSE [nan |-> FALSE, neg |-> signed /\ Head(t) = "-",
             mantissa |-> decToUint(int \o frac), scale |-> Len(frac)]

\* v <= 0 on numbers: false when v is NaN
LeqZero(v) == ~v.nan /\ (v.neg \/ v.mantissa = 0)

\* !amount || parseFloat(amount) <= 0
amountRejected(amount) == amount = <<>> \/ LeqZero(parseFloat(amount))

\* what kit.bridge resolves with: a steps array, or another structure
Step(name, txHash) == [name |-> name, txHash |-> txHash]
WithSteps(steps) ==
    [null |-> FALSE, hasSteps |-> TRUE, steps |-> steps, txHash |-> Undefined,
     receiveTxHash |-> Undefined]
WithFields(txHash, receiveTxHash) ==
    [null |-> FALSE, hasSteps |-> FALSE, steps |-> <<>>, txHash |-> txHash,
     receiveTxHash |-> receiveTxHash]
\* result: null
NullResult ==
    [null |-> TRUE, hasSteps |-> FALSE, steps |-> <<>>, txHash |-> Undefined,
     receiveTxHash |-> Undefined]
KitResults ==
    { WithSteps(<<Step("approve", "0xa"), Step("burn", "0xb"),
                 Step("fetchAttestation", Undefined), Step("mint", "0xc")>>),
      WithSteps(<<Step("approve", "0xa"), Step("burn", "0xb")>>),
      WithSteps(<<Step("approve", "0xa")>>),
      WithSteps(<<Step("burn", "0xb"), Step("mint", Undefined)>>),
      WithSteps(<<>>),
      WithFields("0xb", "0xc"),
      WithFields("0xb", Undefined),
      WithFields(Undefined, Undefined) }

\* resultAny.steps.forEach(...): the hashes after the steps seen so far
RECURSIVE stepHashes(_)
stepHashes(steps) ==
    IF steps = <<>> THEN [sourceTxHash |-> Undefined, receiveTxHash |-> Undefined]
    ELSE LET h == stepHashes(SubSeq(steps, 1, Len(steps) - 1))
             step == steps[Len(steps)]
         IN IF step.name = "burn" /\ step.txHash # Undefined
            THEN [h EXCEPT !.sourceTxHash = step.txHash]
            ELSE IF step.name = "mint" /\ step.txHash # Undefined
            THEN [h EXCEPT !.receiveTxHash = step.txHash]
            ELSE IF step.name = "approve" /\ step.txHash # Undefined
                    /\ h.sourceTxHash = Undefined
            THEN [h EXCEPT !.sourceTxHash = step.txHash]
            ELSE h

\* the hashes extracted from a result
extractHashes(result) ==
    IF result.hasSteps THEN stepHashes(result.steps)
    ELSE [sourceTxHash |-> result.txHash, receiveTxHash |-> result.receiveTxHash]

\* what the try block throws, and what a rejected promise carries
Cancelled == "Transaction was cancelled. No tokens were bridged."
CancelledInReceive == "Transaction was cancelled during the receive step"
KitErrors == {"User rejected the request", "Insufficient funds", "execution reverted"}
SetupErrors ==
    {"Wallet not found. Please connect your wallet first.", "not supported by Bridge Kit"}

\* catch: the message shown for an error
isUserRejection(message) ==
    message \in {Cancelled, CancelledInReceive, "User rejected the request"}
errorMessage(message) ==
    IF isUserRejection(message) THEN Cancelled
    ELSE IF message = "Insufficient funds" THEN "Wrong contract address"
    ELSE message

\* the values of useState<BridgeState>
BridgeState(step, error, result, isLoading, sourceTxHash, receiveTxHash, direction, token) ==
    [step |-> step, error |-> error, result |-> result, isLoading |-> isLoading,
     sourceTxHash |-> sourceTxHash, receiveTxHash |-> receiveTxHash,
     direction |-> direction, token |-> token]
IdleState == BridgeState("idle", Null, NullResult, FALSE, Undefined, Undefined, Undefined, Undefined)
ErrorState(error) ==
    BridgeState("error", error, NullResult, FALSE, Undefined, Undefined, Undefined, Undefined)

\* the call in progress: its arguments and what it has done
NoBridgeCall ==
    [amount |-> <<>>, connected |-> FALSE, onSourceChain |-> FALSE,
     switchCalls |-> 0, kitCalls |-> 0, resolved |-> FALSE, extracted |-> Undefined]

bridgeVars == <<poolVars, hooks, prev, pools, allPools, deployed, lastF, snapF, store, ledger, lastP, calls, calc>>

\* bridge(): the two checks, and on passing them the loading state
bridgeValidate(amount, isConnected, onSourceChain) ==
    /\ bridge.pc \in {"mounted", "returned"}
    /\ bridge.calls < MaxBridgeCalls
    /\ LET call == [NoBridgeCall EXCEPT !.amount = amount, !.connected = isConnected,
                                          !.onSourceChain = onSourceChain]
       IN bridge' =
            IF ~isConnected
            THEN [bridge EXCEPT !.ran = "bridge", !.pc = "returned", !.calls = @ + 1, !.call = call,
                                !.state = ErrorState("Please connect your wallet first")]
            ELSE IF amountRejected(amount)
            THEN [bridge EXCEPT !.ran = "bridge", !.pc = "returned", !.calls = @ + 1, !.call = call,
                                !.state = ErrorState("Please enter a valid amount")]
            ELSE [bridge EXCEPT !.ran = "bridge", !.pc = "setup", !.calls = @ + 1, !.call = call,
                                !.state = [@ EXCEPT !.step = "idle", !.error = Null,
                                                    !.isLoading = TRUE]]
    /\ UNCHANGED bridgeVars

\* the call of kit.bridge, preceded by the step shown while it runs
startKit(b) ==
    [b EXCEPT !.ran = "bridge", !.pc = "bridging", !.call.kitCalls = @ + 1,
              !.state.step = "approving"]

\* provider, adapter and chains; then the chain switch when the wallet is
\* on another chain, else the call of kit.bridge
bridgeSetup(outcome) ==
    /\ bridge.pc = "setup"
    /\ bridge' =
         IF outcome \in SetupErrors
         THEN [bridge EXCEPT !.ran = "bridge", !.pc = "returned", !.state = ErrorState(errorMessage(outcome))]
         ELSE IF ~bridge.call.onSourceChain
         THEN [bridge EXCEPT !.ran = "bridge", !.pc = "switching", !.call.switchCalls = @ + 1,
                             !.state.step = "switching-network"]
         ELSE startKit(bridge)
    /\ UNCHANGED bridgeVars

\* after switchChain and the two seconds of waiting
bridgeSwitched ==
    /\ bridge.pc = "switching"
    /\ bridge' = startKit(bridge)
    /\ UNCHANGED bridgeVars

\* kit.bridge resolved: the hashes are extracted, and the call ends in
\* success when there is a receive hash, else in the catch block
bridgeResolved(result) ==
    /\ bridge.pc = "bridging"
    /\ LET h == extractHashes(result) IN
       bridge' =
         IF h.receiveTxHash = Undefined
         THEN [bridge EXCEPT !.ran = "bridge", !.pc = "returned", !.call.resolved = TRUE,
                             !.state = ErrorState(errorMessage(
                                 IF h.sourceTxHash = Undefined THEN Cancelled
                                 ELSE CancelledInReceive))]
         ELSE [bridge EXCEPT !.ran = "bridge", !.pc = "returned", !.call.resolved = TRUE,
                             !.call.extracted = h.receiveTxHash,
                             !.state = BridgeState("success", Null, result, FALSE,
                                                   h.sourceTxHash, h.receiveTxHash,
                                                   "sepolia-to-arc", "USDC")]
    /\ UNCHANGED bridgeVars

\* kit.bridge rejected: the catch block
bridgeRejected(message) ==
    /\ bridge.pc = "bridging"
    /\ bridge' = [bridge EXCEPT !.ran = "bridge", !.pc = "returned",
                                !.state = ErrorState(errorMessage(message))]
    /\ UNCHANGED bridgeVars

\* reset(): callable at any time, also while a call of bridge() is waiting
reset ==
    /\ bridge.pc # "none"
    /\ bridge' = [bridge EXCEPT !.ran = "reset", !.state = IdleState]
    /\ UNCHANGED bridgeVars

InitBridge ==
    /\ InitPool /\ hooks = FALSE /\ prev = Untracked /\ InitFactory
    /\ calc = NoCalc
    /\ bridge = [pc |-> "mounted", ran |-> "none", state |-> IdleState, calls |-> 0,
                 call |-> NoBridgeCall]
NextBridge ==
    \/ \E amount \in Amounts, isConnected \in BOOLEAN, onSourceChain \in BOOLEAN :
          bridgeValidate(amount, isConnected, onSourceChain)
    \/ \E outcome \in SetupErrors \cup {"ready"} : bridgeSetup(outcome)
    \/ bridgeSwitched
    \/ \E result \in KitResults : bridgeResolved(result)
    \/ \E message \in KitErrors : bridgeRejected(message)
    \/ reset
SpecBridge == InitBridge /\ [][NextBridge]_vars


(***************************************************************************)
(* Vocabulary of the properties                                            *)
(***************************************************************************)
\* The transaction that just ended was a call of fn / a successful call of fn
Done(fn) == pc = "done" /\ last.fn = fn
Succeeded(fn) == Done(fn) /\ last.ok
Quiescent == pc \in {"idle", "done"}

RECURSIVE SumOver(_, _)
SumOver(f, S) ==
    IF S = {} THEN 0
    ELSE LET x == CHOOSE y \in S : TRUE IN f[x] + SumOver(f, S \ {x})

\* A ledger after amt moved from holder `from` to holder `to`, stated pointwise
Moved(before, after, from, to, amt) ==
    \A h \in Holders :
        after[h] = before[h] + (IF h = to THEN amt ELSE 0) - (IF h = from THEN amt ELSE 0)

(***************************************************************************)
(* C1  Reserve/balance agreement.  After every successful addLiquidity,    *)
(* removeLiquidity, swapAToB, swapBToA or sync, reserveA equals the pool's *)
(* ledger balance of tokenA and reserveB its balance of tokenB, whatever   *)
(* third parties transferred into the pool between the operations.         *)
(***************************************************************************)
C1_ReserveBalanceAgreement ==
    (pc = "done" /\ last.ok /\ last.fn \in MutatingFunctions)
        => (reserveA = balA[Pool] /\ reserveB = balB[Pool])

\* a swap that found the cached reserves stale after a direct transfer
C1_Witness ==
    /\ Succeeded("swapAToB")
    /\ snap.reserveA # snap.balA[Pool]
    /\ reserveA = balA[Pool]
    /\ reserveB = balB[Pool]

(***************************************************************************)
(* C2  Re-entrancy rejection.  While addLiquidity, removeLiquidity,        *)
(* swapAToB or swapBToA is in progress, every call of a state-mutating     *)
(* function of the pool (those four and sync) made from a token-transfer   *)
(* hook is rejected, and the in-progress flag is clear once the outer call *)
(* has finished or failed.                                                 *)
(***************************************************************************)
C2_ReentrancyRejected ==
    /\ (InCall /\ nested.fn \in MutatingFunctions) => nested.rejected
    /\ Quiescent => status = NOT_ENTERED

(***************************************************************************)
(* C3  Invariant growth.  After every successful swapAToB or swapBToA the  *)
(* product of the reserves is strictly greater than before the swap (than  *)
(* the product of the cached reserves and than the product of the balances *)
(* the swap resynchronised to), also when amountOut rounds down to 0.      *)
(***************************************************************************)
C3_InvariantGrowth ==
    (Succeeded("swapAToB") \/ Succeeded("swapBToA"))
        => /\ reserveA * reserveB > snap.reserveA * snap.reserveB
           /\ reserveA * reserveB > snap.balA[Pool] * snap.balB[Pool]

\* a swap whose output rounded down to 0
C3_Witness ==
    /\ Succeeded("swapAToB")
    /\ last.args[1] > 0
    /\ last.ret[1] = 0
    /\ reserveA * reserveB > snap.reserveA * snap.reserveB

(***************************************************************************)
(* C4  Share conservation.  In every reachable state the LP balances of    *)
(* all owners sum to totalSupply; the 1000 units locked by the first       *)
(* deposit are held by no account and are not part of totalSupply: after   *)
(* the first deposit of (a, b) the depositor holds all of totalSupply,     *)
(* which is floor(sqrt(a*b)) - 1000.                                       *)
(***************************************************************************)
C4_ShareConservation ==
    /\ SumOver(balanceOf, Actors) = totalSupply
    /\ (Succeeded("addLiquidity") /\ snap.totalSupply = 0)
        => /\ balanceOf[last.sender] = totalSupply
           /\ (totalSupply + MINIMUM_LIQUIDITY) * (totalSupply + MINIMUM_LIQUIDITY)
                  <= last.args[1] * last.args[2]
           /\ last.args[1] * last.args[2]
                  < (totalSupply + MINIMUM_LIQUIDITY + 1) * (totalSupply + MINIMUM_LIQUIDITY + 1)

\* a burn while a second owner holds shares
C4_Witness ==
    /\ Succeeded("removeLiquidity")
    /\ \E a \in Actors : a # last.sender /\ balanceOf[a] > 0
    /\ balanceOf[last.sender] > 0

(***************************************************************************)
(* C5  No draining.  Every successful removeLiquidity(shares, ...) returns *)
(* amountA * totalShares <= shares * reserveA and amountB * totalShares <= *)
(* shares * reserveB, for the pool's actual balances and the supply at the *)
(* start of the call, however the shares were acquired; a holder of fewer  *)
(* than all shares takes less than the whole of each reserve, so a pool    *)
(* with shares outstanding never has an empty reserve.                     *)
(***************************************************************************)
C5_NoDraining ==
    /\ Succeeded("removeLiquidity")
        => /\ last.ret[1] * snap.totalSupply <= last.args[1] * snap.balA[Pool]
           /\ last.ret[2] * snap.totalSupply <= last.args[1] * snap.balB[Pool]
           /\ last.args[1] < snap.totalSupply
                => (last.ret[1] < snap.balA[Pool] /\ last.ret[2] < snap.balB[Pool])
    /\ (Quiescent /\ totalSupply > 0) => (balA[Pool] > 0 /\ balB[Pool] > 0)

\* shares received by a share transfer (the holder never deposited) are redeemed
C5_Witness ==
    /\ Succeeded("removeLiquidity")
    /\ snap.balA[last.sender] = InitTokens
    /\ snap.balB[last.sender] = InitTokens
    /\ last.args[1] < snap.totalSupply
    /\ last.ret[1] > 0

(***************************************************************************)
(* C6  Proportional withdrawal.  For a caller holding at least `shares`,   *)
(* shares <= totalShares and both results non-zero, removeLiquidity(shares,*)
(* 0, 0, r) returns exactly floor(shares*reserveA/totalShares) and         *)
(* floor(shares*reserveB/totalShares) of the pool's actual balances (not   *)
(* the cached reserves), sends exactly those amounts to r, and takes       *)
(* exactly `shares` from the caller's balance and from totalShares,        *)
(* leaving every other owner's balance alone.                              *)
(***************************************************************************)
C6_ProportionalWithdrawal ==
    (/\ Done("removeLiquidity")
     /\ last.args[2] = 0
     /\ last.args[3] = 0
     /\ snap.totalSupply > 0
     /\ last.args[1] <= snap.totalSupply
     /\ last.args[1] <= snap.balanceOf[last.sender]
     /\ (last.args[1] * snap.balA[Pool]) \div snap.totalSupply > 0
     /\ (last.args[1] * snap.balB[Pool]) \div snap.totalSupply > 0)
        => LET shares == last.args[1]
               amountA == (shares * snap.balA[Pool]) \div snap.totalSupply
               amountB == (shares * snap.balB[Pool]) \div snap.totalSupply
           IN  /\ last.ok
               /\ last.ret = <<amountA, amountB>>
               /\ Moved(snap.balA, balA, Pool, last.to, amountA)
               /\ Moved(snap.balB, balB, Pool, last.to, amountB)
               /\ totalSupply = snap.totalSupply - shares
               /\ \A a \in Actors :
                     balanceOf[a] = snap.balanceOf[a] - (IF a = last.sender THEN shares ELSE 0)

\* a withdrawal to another account while the cached reserves were stale
C6_Witness ==
    /\ Succeeded("removeLiquidity")
    /\ last.args[2] = 0
    /\ last.args[3] = 0
    /\ snap.reserveA # snap.balA[Pool]
    /\ last.to \in Actors
    /\ last.to # last.sender
    /\ last.args[1] < snap.totalSupply

(***************************************************************************)
(* C7  Registry uniqueness.  At most one pool is ever created per          *)
(* unordered token pair; once a pool exists for {X, Y}, createPool(X, Y)   *)
(* and createPool(Y, X) fail with "Pool exists" and leave pools and        *)
(* allPools unchanged.                                                     *)
(***************************************************************************)
C7_RegistryUniqueness ==
    /\ \A i, j \in 1..Len(deployed) :
          i # j => {deployed[i][1], deployed[i][2]} # {deployed[j][1], deployed[j][2]}
    /\ (/\ pc = "done"
        /\ lastF.fn = "createPool"
        /\ \E i \in 1..Len(snapF.allPools) :
              {deployed[i][1], deployed[i][2]} = {lastF.args[1], lastF.args[2]})
        => /\ ~lastF.ok
           /\ lastF.err = "Pool exists"
           /\ pools = snapF.pools
           /\ allPools = snapF.allPools

\* a second creation for an existing pair, tokens given in descending order
C7_Witness ==
    /\ pc = "done"
    /\ lastF.fn = "createPool"
    /\ lastF.err = "Pool exists"
    /\ lastF.args[1] > lastF.args[2]
    /\ Len(allPools) = Len(snapF.allPools)

(***************************************************************************)
(* C8  Symmetric lookup.  For all tokens X, Y: getPool(X, Y) = getPool(Y,  *)
(* X) and pools[X][Y] = pools[Y][X]; getPool returns the pool created for  *)
(* {X, Y} if there is one and the zero address otherwise, also for X = Y.  *)
(***************************************************************************)
C8_SymmetricLookup ==
    /\ \A X, Y \in Tokens :
          /\ getPool(X, Y) = getPool(Y, X)
          /\ pools[X][Y] = pools[Y][X]
          /\ \A i \in 1..Len(deployed) :
                {deployed[i][1], deployed[i][2]} = {X, Y} => getPool(X, Y) = allPools[i]
          /\ (\A i \in 1..Len(deployed) : {deployed[i][1], deployed[i][2]} # {X, Y})
                => getPool(X, Y) = NoPool
    /\ (pc = "done" /\ lastF.fn = "getPool")
          => /\ lastF.ok
             /\ lastF.ret = getPool(lastF.args[2], lastF.args[1])

\* a lookup with the tokens in descending order finds the pool
C8_Witness ==
    /\ pc = "done"
    /\ lastF.fn = "getPool"
    /\ lastF.args[1] > lastF.args[2]
    /\ lastF.ret # NoPool
    /\ Len(allPools) > 1

(***************************************************************************)
(* C9  First deposit.  In every state with totalShares = 0, whatever the   *)
(* pool's token balances, addLiquidity(a, b, _, _) fails with the          *)
(* insufficient-initial-liquidity error when floor(sqrt(a*b)) <= 1000 and  *)
(* otherwise (the caller holding a and b) succeeds, pulls exactly a and b, *)
(* mints floor(sqrt(a*b)) - 1000 shares to the caller and ends with        *)
(* totalShares = floor(sqrt(a*b)) - 1000.                                  *)
(***************************************************************************)
C9_FirstDeposit ==
    (Done("addLiquidity") /\ snap.totalSupply = 0)
        => LET a == last.args[1]
               b == last.args[2]
               floor == MINIMUM_LIQUIDITY + 1
           IN  IF a * b < floor * floor
               THEN ~last.ok /\ last.err = "Insufficient liquidity"
               ELSE (snap.balA[last.sender] >= a /\ snap.balB[last.sender] >= b)
                    => /\ last.ok
                       /\ Moved(snap.balA, balA, last.sender, Pool, a)
                       /\ Moved(snap.balB, balB, last.sender, Pool, b)
                       /\ balanceOf[last.sender] = snap.balanceOf[last.sender] + totalSupply
                       /\ (totalSupply + MINIMUM_LIQUIDITY) * (totalSupply + MINIMUM_LIQUIDITY)
                              <= a * b
                       /\ a * b < (totalSupply + floor) * (totalSupply + floor)

(***************************************************************************)
(* C10  Minimum locked liquidity.  Once the pool has been funded, no       *)
(* sequence of removeLiquidity calls by the first liquidity provider       *)
(* reduces totalShares to zero (or below the locked floor), so the         *)
(* provider cannot withdraw the pool's entire reserves.  Stated in its     *)
(* weakest reading: a successful removeLiquidity leaves shares outstanding *)
(* and leaves the pool some reserve.                                       *)
(***************************************************************************)
C10_MinimumLockedLiquidity ==
    Succeeded("removeLiquidity")
        => /\ totalSupply > 0
           /\ ~(balA[Pool] = 0 /\ balB[Pool] = 0)

(***************************************************************************)
(* C11  Swap pricing.  Every successful swap of amountIn > 0 delivers      *)
(* exactly floor(amountIn*9970*reserveOut / (reserveIn*10000 +             *)
(* amountIn*9970)) of the output token, the reserves being the pool's      *)
(* balances at the start of the call, (A, B) for swapAToB and (B, A) for   *)
(* swapBToA; the input is pulled from the caller.  With reserves (100,     *)
(* 200) and 10 of A in, the output is 18.                                  *)
(***************************************************************************)
PricedOut(amountIn, reserveIn, reserveOut) ==
    MulDiv(amountIn * 9970, reserveOut, reserveIn * 10000 + amountIn * 9970)

C11_SwapPricing ==
    /\ Succeeded("swapAToB")
        => LET out == PricedOut(last.args[1], snap.balA[Pool], snap.balB[Pool])
           IN  /\ last.args[1] > 0
               /\ last.ret = <<out>>
               /\ Moved(snap.balA, balA, last.sender, Pool, last.args[1])
               /\ Moved(snap.balB, balB, Pool, last.to, out)
    /\ Succeeded("swapBToA")
        => LET out == PricedOut(last.args[1], snap.balB[Pool], snap.balA[Pool])
           IN  /\ last.args[1] > 0
               /\ last.ret = <<out>>
               /\ Moved(snap.balB, balB, last.sender, Pool, last.args[1])
               /\ Moved(snap.balA, balA, Pool, last.to, out)
    /\ _getAmountOut(10, 100, 200) = Ok((10 * 9970 * 200) \div (100 * 10000 + 10 * 9970))
    /\ _getAmountOut(10, 100, 200).v = 18

\* a swap of B for A against unequal reserves
C11_Witness ==
    /\ Succeeded("swapBToA")
    /\ snap.balA[Pool] # snap.balB[Pool]
    /\ last.ret[1] > 1
    /\ balA[last.to] = snap.balA[last.to] + last.ret[1]

(***************************************************************************)
(* C12  Desired amounts bound the pull.  Every successful addLiquidity(aD, *)
(* bD, aMin, bMin) on a funded pool pulls amountA <= aD and amountB <= bD: *)
(* (aD, floor(aD*reserveB/reserveA)) when that B amount is <= bD, and      *)
(* (floor(bD*reserveA/reserveB), bD) otherwise.  In the fallback the       *)
(* recomputed A amount never exceeds aD, so a call that fails with the     *)
(* A-amount error fails because that amount is below aMin.                 *)
(***************************************************************************)
\* the pool held both tokens when the call started
Funded == snap.balA[Pool] > 0 /\ snap.balB[Pool] > 0
\* what the call took from the caller's token balances
PulledA == snap.balA[last.sender] - balA[last.sender]
PulledB == snap.balB[last.sender] - balB[last.sender]
\* the derived amounts of addLiquidity on the balances at the start of the call
OptimalB == (last.args[1] * snap.balB[Pool]) \div snap.balA[Pool]
OptimalA == (last.args[2] * snap.balA[Pool]) \div snap.balB[Pool]

C12_DesiredBoundsPull ==
    /\ (Succeeded("addLiquidity") /\ Funded)
        => /\ PulledA <= last.args[1]
           /\ PulledB <= last.args[2]
           /\ IF OptimalB <= last.args[2]
              THEN PulledA = last.args[1] /\ PulledB = OptimalB
              ELSE PulledA = OptimalA /\ PulledB = last.args[2]
           /\ balA[Pool] = snap.balA[Pool] + PulledA
           /\ balB[Pool] = snap.balB[Pool] + PulledB
    /\ (Done("addLiquidity") /\ Funded /\ last.args[1] > 0 /\ last.args[2] > 0
            /\ OptimalB > last.args[2])
        => /\ OptimalA <= last.args[1]
           /\ (~last.ok /\ last.err = "Insufficient A amount") => OptimalA < last.args[3]

\* a deposit that fell back to the amount of A derived from bD
C12_Witness ==
    /\ Succeeded("addLiquidity")
    /\ Funded
    /\ OptimalB > last.args[2]
    /\ PulledB = last.args[2]
    /\ PulledA < last.args[1]
    /\ PulledA > 0

(***************************************************************************)
(* C13  Share minting on a funded pool.  Every successful addLiquidity     *)
(* that pulls (amountA, amountB) into a pool with reserves (reserveA,      *)
(* reserveB) and supply totalShares mints exactly                          *)
(* min(floor(amountA*totalShares/reserveA),                                *)
(* floor(amountB*totalShares/reserveB)) shares to the caller and to nobody *)
(* else and raises totalSupply by that amount; a call whose derived        *)
(* amounts pass their checks and whose minimum is zero fails with          *)
(* "Insufficient liquidity minted" and changes nothing.                    *)
(***************************************************************************)
\* every variable of the pool and both token ledgers are as before the call
NothingChanged ==
    /\ reserveA = snap.reserveA
    /\ reserveB = snap.reserveB
    /\ totalSupply = snap.totalSupply
    /\ balanceOf = snap.balanceOf
    /\ balA = snap.balA
    /\ balB = snap.balB

\* the smaller of the two pro-rata share amounts for a pull of (a, b)
SharesFor(a, b) ==
    LET forA == (a * snap.totalSupply) \div snap.balA[Pool]
        forB == (b * snap.totalSupply) \div snap.balB[Pool]
    IN  IF forA < forB THEN forA ELSE forB

\* the call passes the checks of the branch that derives B / of the fallback
DerivesB == last.args[1] > 0 /\ OptimalB <= last.args[2] /\ OptimalB >= last.args[4]
DerivesA ==
    /\ last.args[1] > 0
    /\ last.args[2] > 0
    /\ OptimalB > last.args[2]
    /\ OptimalA >= last.args[3]

C13_ShareMinting ==
    /\ (Succeeded("addLiquidity") /\ Funded)
        => LET minted == SharesFor(PulledA, PulledB)
           IN  /\ minted > 0
               /\ last.ret = <<minted>>
               /\ totalSupply = snap.totalSupply + minted
               /\ \A a \in Actors :
                     balanceOf[a] = snap.balanceOf[a] + (IF a = last.sender THEN minted ELSE 0)
    /\ (Done("addLiquidity") /\ Funded /\ DerivesB
            /\ SharesFor(last.args[1], OptimalB) = 0)
        => (~last.ok /\ last.err = "Insufficient liquidity minted" /\ NothingChanged)
    /\ (Done("addLiquidity") /\ Funded /\ DerivesA
            /\ SharesFor(OptimalA, last.args[2]) = 0)
        => (~last.ok /\ last.err = "Insufficient liquidity minted" /\ NothingChanged)

\* a deposit into a pool with shares outstanding whose two share amounts differ
C13_Witness ==
    /\ Succeeded("addLiquidity")
    /\ Funded
    /\ snap.totalSupply > 0
    /\ (PulledA * snap.totalSupply) \div snap.balA[Pool]
           # (PulledB * snap.totalSupply) \div snap.balB[Pool]

(***************************************************************************)
(* C14  Swap slippage bound under interleaving.  Whenever swapAToB or      *)
(* swapBToA called with minimum m succeeds, the amount pushed to the       *)
(* recipient is >= m; when the amount computed from the pool's balances at *)
(* execution time is < m the swap fails and leaves all state unchanged.    *)
(* This holds in every behaviour, whatever swaps, deposits, withdrawals    *)
(* and direct transfers of other actors precede the swap; the amount       *)
(* executed may differ from the one getAmountOut quoted from the cached    *)
(* reserves before it.                                                     *)
(***************************************************************************)
C14_SwapSlippageBound ==
    /\ Succeeded("swapAToB")
        => /\ last.ret[1] >= last.args[2]
           /\ balB[last.to] - snap.balB[last.to] >= last.args[2]
    /\ Succeeded("swapBToA")
        => /\ last.ret[1] >= last.args[2]
           /\ balA[last.to] - snap.balA[last.to] >= last.args[2]
    /\ (Done("swapAToB") /\ Funded /\ last.args[1] > 0
            /\ PricedOut(last.args[1], snap.balA[Pool], snap.balB[Pool]) < last.args[2])
        => (~last.ok /\ NothingChanged)
    /\ (Done("swapBToA") /\ Funded /\ last.args[1] > 0
            /\ PricedOut(last.args[1], snap.balB[Pool], snap.balA[Pool]) < last.args[2])
        => (~last.ok /\ NothingChanged)

\* a swap with a positive minimum that executed at another amount than the
\* one getAmountOut returned in the state it was sent from
C14_Witness ==
    /\ Succeeded("swapAToB")
    /\ last.args[2] > 0
    /\ snap.reserveA > 0
    /\ snap.reserveB > 0
    /\ _getAmountOut(last.args[1], snap.reserveA, snap.reserveB).v # last.ret[1]
    /\ balB[last.to] - snap.balB[last.to] >= last.args[2]

(***************************************************************************)
(* C15  Swap rejection.  swapAToB / swapBToA fails with "Insufficient      *)
(* input amount" when amountIn = 0, with "Insufficient liquidity" when     *)
(* amountIn > 0 and either resynchronised reserve is zero, and with        *)
(* "Insufficient output amount" when the computed output is below the      *)
(* caller's minimum; in each case no tokens move and reserves, totalSupply *)
(* and all share balances are exactly as before the call.                  *)
(***************************************************************************)
SwapCall == Done("swapAToB") \/ Done("swapBToA")
SwapOut ==
    IF last.fn = "swapAToB"
    THEN PricedOut(last.args[1], snap.balA[Pool], snap.balB[Pool])
    ELSE PricedOut(last.args[1], snap.balB[Pool], snap.balA[Pool])

C15_SwapRejection ==
    /\ (SwapCall /\ last.args[1] = 0)
        => (~last.ok /\ last.err = "Insufficient input amount" /\ NothingChanged)
    /\ (SwapCall /\ last.args[1] > 0 /\ ~Funded)
        => (~last.ok /\ last.err = "Insufficient liquidity" /\ NothingChanged)
    /\ (SwapCall /\ last.args[1] > 0 /\ Funded /\ SwapOut < last.args[2])
        => (~last.ok /\ last.err = "Insufficient output amount" /\ NothingChanged)

\* a swap against a pool that holds one token only (after a direct transfer)
C15_Witness ==
    /\ SwapCall
    /\ last.args[1] > 0
    /\ snap.balA[Pool] + snap.balB[Pool] > 0
    /\ ~Funded
    /\ last.err = "Insufficient liquidity"
    /\ NothingChanged

(***************************************************************************)
(* C16  removeLiquidity rejection.  With shares outstanding,               *)
(* removeLiquidity(shares, aMin, bMin, to) fails with "Insufficient        *)
(* liquidity burned" when floor(shares*reserveA/totalSupply) = 0 or        *)
(* floor(shares*reserveB/totalSupply) = 0, and with "Slippage too high"    *)
(* when either amount is below its minimum; in each case no shares are     *)
(* burned, no tokens move and reserves and totalSupply are unchanged.  On  *)
(* success both returned amounts are >= their minimums.                    *)
(***************************************************************************)
BurnOutA == (last.args[1] * snap.balA[Pool]) \div snap.totalSupply
BurnOutB == (last.args[1] * snap.balB[Pool]) \div snap.totalSupply

C16_RemoveRejection ==
    /\ (Done("removeLiquidity") /\ snap.totalSupply > 0 /\ (BurnOutA = 0 \/ BurnOutB = 0))
        => (~last.ok /\ last.err = "Insufficient liquidity burned" /\ NothingChanged)
    /\ (Done("removeLiquidity") /\ snap.totalSupply > 0 /\ BurnOutA > 0 /\ BurnOutB > 0
            /\ (BurnOutA < last.args[2] \/ BurnOutB < last.args[3]))
        => (~last.ok /\ last.err = "Slippage too high" /\ NothingChanged)
    /\ Succeeded("removeLiquidity")
        => (last.ret[1] >= last.args[2] /\ last.ret[2] >= last.args[3])

\* a withdrawal refused because the amount of B is below its minimum
C16_Witness ==
    /\ Done("removeLiquidity")
    /\ snap.totalSupply > 0
    /\ last.args[1] > 0
    /\ BurnOutA >= last.args[2]
    /\ BurnOutB > 0
    /\ BurnOutB < last.args[3]
    /\ last.err = "Slippage too high"
    /\ NothingChanged

(***************************************************************************)
(* C17  Abort on ledger failure.  If a pull or push on a token ledger (or  *)
(* the burn on the share ledger) fails inside addLiquidity,                *)
(* removeLiquidity or a swap, the whole operation fails and reserveA,      *)
(* reserveB, totalSupply, every share balance and every token balance are  *)
(* exactly as before the call, an earlier transfer of the same call        *)
(* included.  A call whose pull exceeds the caller's balance of either     *)
(* token therefore never succeeds.                                         *)
(***************************************************************************)
\* the caller's balances at the start of the call do not cover (a, b)
CannotPay(a, b) == a > snap.balA[last.sender] \/ b > snap.balB[last.sender]
Aborted == ~last.ok /\ NothingChanged

C18_DerivedSideSlippage ==
    /\ (Succeeded("addLiquidity") /\ Funded)
        => IF OptimalB <= last.args[2]
           THEN PulledB = OptimalB /\ PulledB >= last.args[4]
           ELSE PulledA = OptimalA /\ PulledA >= last.args[3]
    /\ (Done("addLiquidity") /\ Funded /\ last.args[1] > 0
            /\ OptimalB <= last.args[2] /\ OptimalB < last.args[4])
        => (~last.ok /\ last.err = "Insufficient B amount" /\ NothingChanged)
    /\ (Done("addLiquidity") /\ Funded /\ last.args[1] > 0 /\ last.args[2] > 0
            /\ OptimalB > last.args[2] /\ OptimalA < last.args[3])
        => (~last.ok /\ last.err = "Insufficient A amount" /\ NothingChanged)
    /\ (Done("addLiquidity") /\ Funded /\ DerivesB
            /\ SharesFor(last.args[1], OptimalB) > 0
            /\ ~CannotPay(last.args[1], OptimalB))
        => last.ok
    /\ (Done("addLiquidity") /\ Funded /\ DerivesA
            /\ SharesFor(OptimalA, last.args[2]) > 0
            /\ ~CannotPay(OptimalA, last.args[2]))
        => last.ok
    /\ (Done("addLiquidity") /\ snap.balA[Pool] = 0 /\ snap.balB[Pool] = 0
            /\ last.args[1] * last.args[2]
                   >= (MINIMUM_LIQUIDITY + 1) * (MINIMUM_LIQUIDITY + 1)
            /\ ~CannotPay(last.args[1], last.args[2]))
        => last.ok

\* a deposit that derived B and pulled less of A than the caller's aMin
C18_Witness ==
    /\ Succeeded("addLiquidity")
    /\ Funded
    /\ OptimalB <= last.args[2]
    /\ PulledA = last.args[1]
    /\ PulledA < last.args[3]
    /\ PulledB >= last.args[4]

(***************************************************************************)
(* C19  Round trip.  On a funded pool, addLiquidity(a, b, 0, 0) that pulls *)
(* (amountA, amountB) and mints s shares, followed in the next transaction *)
(* by removeLiquidity(s, 0, 0, caller) of the same caller, returns (a',    *)
(* b') with a' <= amountA and b' <= amountB, and each shortfall is at most *)
(* reserveX/totalSupply + reserveX/reserveY + 2 (integer quotients) for    *)
(* the reserves and the supply the deposit was made on.                    *)
(***************************************************************************)
\* the transaction that just ended withdrew what the one before it deposited
RoundTrip ==
    /\ Succeeded("removeLiquidity")
    /\ prev.tracked
    /\ prev.last.fn = "addLiquidity"
    /\ prev.snap.balA[Pool] > 0
    /\ prev.snap.balB[Pool] > 0
    /\ prev.snap.totalSupply > 0
    /\ prev.last.args[3] = 0
    /\ prev.last.args[4] = 0
    /\ last.sender = prev.last.sender
    /\ last.to = last.sender
    /\ last.args = <<prev.last.ret[1], 0, 0>>

C19_RoundTrip ==
    RoundTrip
        => LET amountA == prev.snap.balA[last.sender] - snap.balA[last.sender]
               amountB == prev.snap.balB[last.sender] - snap.balB[last.sender]
               rA == prev.snap.balA[Pool]
               rB == prev.snap.balB[Pool]
               supply == prev.snap.totalSupply
           IN  /\ last.ret[1] <= amountA
               /\ last.ret[2] <= amountB
               /\ amountA - last.ret[1] <= (rA \div supply) + (rA \div rB) + 2
               /\ amountB - last.ret[2] <= (rB \div supply) + (rB \div rA) + 2
               /\ balA[last.sender] = prev.snap.balA[last.sender] - (amountA - last.ret[1])
               /\ balB[last.sender] = prev.snap.balB[last.sender] - (amountB - last.ret[2])

\* a round trip that lost to rounding
C19_Witness ==
    /\ RoundTrip
    /\ last.ret[1] > 0
    /\ last.ret[1] < prev.snap.balA[last.sender] - snap.balA[last.sender]
    /\ balB[last.sender] <= prev.snap.balB[last.sender]

(***************************************************************************)
(* C20  No partially-updated state is observable.  While a mutating        *)
(* operation is between its first and last step, no call made into the     *)
(* pool from a token-transfer hook, the reads getReserves, getAmountOut,   *)
(* totalSupply and balanceOf included, observes cached reserves that       *)
(* differ from the pool's actual balances, nor a state in which shares     *)
(* have been burned or tokens moved while the cached reserves still show   *)
(* the values they had before the operation.                               *)
(***************************************************************************)
C20_NoPartialStateObservable ==
    /\ (InCall /\ nested.fn \in {"getReserves", "getAmountOut"})
        => getReserves = <<balA[Pool], balB[Pool]>>
    /\ (InCall /\ nested.fn \in ViewFunctions
            /\ (totalSupply # snap.totalSupply \/ balA # snap.balA \/ balB # snap.balB))
        => getReserves # <<snap.reserveA, snap.reserveB>>

(***************************************************************************)
(* C21  createPool input validation.  createPool(X, Y) fails when X = Y    *)
(* and when X or Y is the zero address; in both cases no pool is created   *)
(* and pools and allPools are unchanged.  For every other input with no    *)
(* pool for {X, Y} yet it succeeds.                                        *)
(***************************************************************************)
CreateCall == pc = "done" /\ lastF.fn = "createPool"
RegistryUnchanged ==
    /\ pools = snapF.pools
    /\ allPools = snapF.allPools
    /\ Len(deployed) = Len(snapF.allPools)

C21_CreatePoolValidation ==
    /\ (CreateCall /\ lastF.args[1] = lastF.args[2])
        => (~lastF.ok /\ lastF.err = "Identical tokens" /\ RegistryUnchanged)
    /\ (CreateCall /\ lastF.args[1] # lastF.args[2]
            /\ (lastF.args[1] = 0 \/ lastF.args[2] = 0))
        => (~lastF.ok /\ lastF.err = "Zero address" /\ RegistryUnchanged)
    /\ (CreateCall /\ lastF.args[1] # lastF.args[2]
            /\ lastF.args[1] # 0 /\ lastF.args[2] # 0
            /\ snapF.pools[lastF.args[1]][lastF.args[2]] = NoPool
            /\ snapF.pools[lastF.args[2]][lastF.args[1]] = NoPool)
        => /\ lastF.ok
           /\ lastF.ret # NoPool
           /\ pools[lastF.args[1]][lastF.args[2]] = lastF.ret
           /\ Len(allPools) = Len(snapF.allPools) + 1

\* a creation refused for the zero address by a registry that holds a pool
C21_Witness ==
    /\ CreateCall
    /\ lastF.args[1] > 0
    /\ lastF.args[2] = 0
    /\ lastF.err = "Zero address"
    /\ Len(allPools) > 0
    /\ RegistryUnchanged

(***************************************************************************)
(* C22  allPools is append-only.  Over every sequence of registry calls    *)
(* allPools changes only by gaining one new pool at its end: no element is *)
(* removed, reordered or overwritten, its elements are pairwise distinct   *)
(* and stand in creation order, and allPoolsLength() is the number of      *)
(* successful createPool calls; a failed createPool and a getPool leave it *)
(* unchanged.                                                              *)
(***************************************************************************)
AppendedOne == \E pool \in PoolAddresses : pool \notin PoolsOf(allPools) /\ allPools' = Append(allPools, pool)
CreatedNow == pc = "idle" /\ lastF'.fn = "createPool" /\ lastF'.ok
RefusedNow == pc = "idle" /\ lastF'.fn \in {"createPool", "getPool"} /\ ~CreatedNow

C22_AllPoolsAppendOnly ==
    /\ [](/\ \A i, j \in 1..Len(allPools) : i # j => allPools[i] # allPools[j]
          /\ allPoolsLength = Len(deployed)
          /\ \A i \in 1..Len(allPools) :
                pools[deployed[i][1]][deployed[i][2]] = allPools[i])
    /\ [][/\ allPools' = allPools \/ AppendedOne
          /\ CreatedNow => (AppendedOne /\ Len(deployed') = Len(deployed) + 1)
          /\ RefusedNow => (allPools' = allPools /\ deployed' = deployed)
          /\ allPools' # allPools => CreatedNow]_vars

\* a second pool has been appended behind the first
C22_Witness ==
    /\ CreateCall
    /\ lastF.ok
    /\ Len(snapF.allPools) = 1
    /\ Len(allPools) = 2
    /\ allPools[1] = snapF.allPools[1]
    /\ allPools[2] = lastF.ret
    /\ allPoolsLength = 2

(***************************************************************************)
(* C28  Pool-created event.  Every successful createPool emits exactly one *)
(* PoolCreated event carrying the canonical pair (smaller token first),    *)
(* the new pool and the length of allPools after the push, so that the new *)
(* pool is the element of allPools at that number less one; a failed       *)
(* createPool emits no event.                                              *)
(***************************************************************************)
CanonicalEvent ==
    /\ Len(lastF.events) = 1
    /\ lastF.events[1].name = "PoolCreated"
    /\ lastF.events[1].tokenA < lastF.events[1].tokenB
    /\ {lastF.events[1].tokenA, lastF.events[1].tokenB} = {lastF.args[1], lastF.args[2]}
    /\ lastF.events[1].pool = lastF.ret

C28_PoolCreatedEvent ==
    /\ (CreateCall /\ lastF.ok)
        => /\ CanonicalEvent
           /\ lastF.events[1].n = allPoolsLength
           /\ allPoolsAt(lastF.events[1].n - 1) = lastF.ret
    /\ (CreateCall /\ ~lastF.ok) => lastF.events = <<>>

\* the second pool of the registry, created from a pair given larger token first
C28_Witness ==
    /\ CreateCall
    /\ lastF.ok
    /\ lastF.args[1] > lastF.args[2]
    /\ lastF.events[1].n = 2
    /\ allPoolsAt(1) = lastF.ret

\* C28 as stated: the number the event carries is the index at which the new
\* pool is stored in allPools
C28_EventCarriesIndex ==
    /\ (CreateCall /\ lastF.ok)
        => /\ CanonicalEvent
           /\ allPoolsAt(lastF.events[1].n) = lastF.ret
    /\ (CreateCall /\ ~lastF.ok) => lastF.events = <<>>

(***************************************************************************)
(* C23  Canonical ordering.  Every pool the registry creates is bound to   *)
(* (tokenA, tokenB) with tokenA strictly smaller than tokenB, whichever    *)
(* order the pair was given in, and a pool's tokenA and tokenB never change*)
(* afterwards under any sequence of pool and registry operations.          *)
(***************************************************************************)
PoolStep == pc = "idle" /\ lastP'.fn # "none"
CalledPool == IndexOf(lastP'.pool)

C23_CanonicalOrdering ==
    /\ [](/\ \A i \in 1..Len(store) :
                /\ store[i].tokenA < store[i].tokenB
                /\ pools[store[i].tokenA][store[i].tokenB] = PoolAddress(i)
                /\ pools[store[i].tokenB][store[i].tokenA] = PoolAddress(i)
          /\ (CreateCall /\ lastF.ok)
                => /\ store[Len(store)].tokenA = _min(lastF.args[1], lastF.args[2])
                   /\ {store[Len(store)].tokenA, store[Len(store)].tokenB}
                        = {lastF.args[1], lastF.args[2]})
    /\ [][\A i \in 1..Len(store) :
            /\ Len(store') >= Len(store)
            /\ store'[i].tokenA = store[i].tokenA
            /\ store'[i].tokenB = store[i].tokenB]_vars

\* a pool created from a pair given larger token first, in a registry whose
\* first pool has been funded and traded on
C23_Witness ==
    /\ CreateCall
    /\ lastF.ok
    /\ lastF.args[1] > lastF.args[2]
    /\ store[Len(store)].tokenA = lastF.args[2]
    /\ Len(store) = 2
    /\ store[1].totalSupply > 0
    /\ store[1].reserveA # store[1].reserveB
    /\ calls >= 2

(***************************************************************************)
(* C24  Pool independence.  For two distinct pools P and Q of the registry *)
(* every operation on P leaves Q's reserveA, reserveB and totalSupply      *)
(* unchanged.  It leaves Q's share balances unchanged too unless Q's share *)
(* token is one of P's two tokens; then it moves Q's shares only between   *)
(* P, the caller and the recipient, their total unchanged.                 *)
(***************************************************************************)
TradesSharesOf(p, q) == PoolAddress(q) \in {store[p].tokenA, store[p].tokenB}
OtherPools == (1..Len(store)) \ {CalledPool}
SameReserves(q) ==
    /\ store'[q].reserveA = store[q].reserveA
    /\ store'[q].reserveB = store[q].reserveB
    /\ store'[q].totalSupply = store[q].totalSupply

C24_PoolIndependence ==
    [][PoolStep =>
        \A q \in OtherPools :
            /\ SameReserves(q)
            /\ ~TradesSharesOf(CalledPool, q)
                => store'[q].balanceOf = store[q].balanceOf
            /\ TradesSharesOf(CalledPool, q)
                => /\ \A h \in AccountHolders \ {lastP'.pool, lastP'.sender, lastP'.to} :
                        store'[q].balanceOf[h] = store[q].balanceOf[h]
                   /\ SumOver(store'[q].balanceOf, AccountHolders)
                        = SumOver(store[q].balanceOf, AccountHolders)]_vars

\* a swap on the first pool has paid its output to the second pool, which is
\* funded and shares a token with it
C24_Witness ==
    /\ pc = "done"
    /\ lastP.ok
    /\ lastP.fn \in {"swapAToB", "swapBToA"}
    /\ lastP.pool = PoolAddress(1)
    /\ lastP.to = PoolAddress(2)
    /\ Len(store) = 2
    /\ store[2].totalSupply > 0
    /\ store[2].reserveA > 0
    /\ store[2].tokenA \in {store[1].tokenA, store[1].tokenB}
    /\ store[2].reserveA # balanceIn(World, store[2].tokenA, PoolAddress(2))

\* C24 as stated: an operation on P leaves Q's share balances unchanged too,
\* whatever the tokens of P
C24_ShareBalancesUntouched ==
    [][PoolStep =>
        \A q \in OtherPools :
            /\ SameReserves(q)
            /\ store'[q].balanceOf = store[q].balanceOf]_vars

(***************************************************************************)
(* C29  The owner has no privileges.  A call made by a pool's owner (the   *)
(* registry that deployed it), holding no shares and no tokens, does not   *)
(* decrease the pool's token balances, changes the reserves only to the    *)
(* pool's balances (a resync), changes no share balance and no total       *)
(* supply, and succeeds only if it is sync; and no call by anyone is       *)
(* refused for not coming from the owner.                                  *)
(***************************************************************************)
OwnerHoldsNothing(i) ==
    /\ balanceIn(World, store[i].tokenA, store[i].owner) = 0
    /\ balanceIn(World, store[i].tokenB, store[i].owner) = 0
    /\ store[i].balanceOf[store[i].owner] = 0
OwnerStep ==
    /\ PoolStep
    /\ lastP'.sender = store[CalledPool].owner
    /\ OwnerHoldsNothing(CalledPool)
PoolBalanceA(i) == balanceIn(World, store[i].tokenA, PoolAddress(i))
PoolBalanceB(i) == balanceIn(World, store[i].tokenB, PoolAddress(i))
WorldAfter == [store |-> store', ledger |-> ledger']

C29_OwnerHasNoPrivileges ==
    /\ [](lastP.err # "OwnableUnauthorizedAccount")
    /\ []((pc = "done" /\ lastP.fn = "sync") => lastP.ok)
    /\ [][OwnerStep =>
            /\ balanceIn(WorldAfter, store[CalledPool].tokenA, lastP'.pool)
                    >= PoolBalanceA(CalledPool)
            /\ balanceIn(WorldAfter, store[CalledPool].tokenB, lastP'.pool)
                    >= PoolBalanceB(CalledPool)
            /\ store'[CalledPool].reserveA
                    \in {store[CalledPool].reserveA, PoolBalanceA(CalledPool)}
            /\ store'[CalledPool].reserveB
                    \in {store[CalledPool].reserveB, PoolBalanceB(CalledPool)}
            /\ store'[CalledPool].totalSupply = store[CalledPool].totalSupply
            /\ store'[CalledPool].balanceOf = store[CalledPool].balanceOf
            /\ store'[CalledPool].owner = store[CalledPool].owner
            /\ ledger' = ledger
            /\ \A q \in OtherPools : store'[q] = store[q]
            /\ lastP'.ok => lastP'.fn = "sync"]_vars

\* the owner has resynchronised a pool that holds tokens and has no shares
C29_Witness ==
    /\ pc = "done"
    /\ lastP.ok
    /\ lastP.fn = "sync"
    /\ lastP.sender = Factory
    /\ store[IndexOf(lastP.pool)].owner = Factory
    /\ store[IndexOf(lastP.pool)].totalSupply = 0
    /\ store[IndexOf(lastP.pool)].reserveA > 0
    /\ calls = 3

(***************************************************************************)
(* C25  The quote is read-only and exact when in sync.  getAmountOut       *)
(* changes no state and does not resync; called when the cached reserves   *)
(* equal the pool's balances it returns exactly the amount a swap entered  *)
(* in that state pays out; it fails exactly when amountIn is 0 or a cached *)
(* reserve is 0.                                                           *)
(***************************************************************************)
InSync == reserveA = balA[Pool] /\ reserveB = balB[Pool]
SwapEntered(fn) == pc = "idle" /\ pc' = "xfer1" /\ frame'.fn = fn
QuoteFor(amountIn, isTokenA) ==
    IF getAmountOut(amountIn, isTokenA).ok
    THEN <<getAmountOut(amountIn, isTokenA).v>> ELSE <<>>

C25_StaleQuoteDiffers ==
    /\ Succeeded("swapAToB")
    /\ snap.reserveB # snap.balB[Pool]
    /\ _getAmountOut(last.args[1], snap.reserveA, snap.reserveB).ok
    /\ _getAmountOut(last.args[1], snap.reserveA, snap.reserveB).v # last.ret[1]

(***************************************************************************)
(* C30  Share value never decreases.  For every successful addLiquidity on *)
(* a funded pool and every successful removeLiquidity that leaves shares,  *)
(* reserveA' * totalSupply >= reserveA * totalSupply' and the same for B;  *)
(* every successful swap leaves totalSupply unchanged and increases        *)
(* reserveA * reserveB; and over every transaction, direct transfers and   *)
(* resyncs included, (reserveA * reserveB) / totalSupply^2 does not fall.  *)
(***************************************************************************)
\* a * b <= c * d for naturals, without forming the products
RECURSIVE ProdLeq(_, _, _, _)
ProdLeq(a, b, c, d) ==
    IF a = 0 \/ b = 0 THEN TRUE
    ELSE IF c = 0 \/ d = 0 THEN FALSE
    ELSE IF a \div d # c \div b THEN a \div d < c \div b
    ELSE IF a % d = 0 THEN TRUE
    ELSE IF c % b = 0 THEN FALSE
    ELSE ProdLeq(b, a % d, d, c % b)

SharesRemain == snap.totalSupply > 0 /\ totalSupply > 0
BackingKept ==
    /\ reserveA * snap.totalSupply >= snap.reserveA * totalSupply
    /\ reserveB * snap.totalSupply >= snap.reserveB * totalSupply

C30_ShareValueNeverDecreases ==
    /\ (Succeeded("addLiquidity") /\ SharesRemain) => BackingKept
    /\ (Succeeded("removeLiquidity") /\ SharesRemain) => BackingKept
    /\ (Succeeded("swapAToB") \/ Succeeded("swapBToA"))
        => /\ totalSupply = snap.totalSupply
           /\ reserveA * reserveB > snap.reserveA * snap.reserveB
    /\ (pc = "done" /\ last.ok /\ SharesRemain)
        => ProdLeq(snap.reserveA * snap.reserveB, totalSupply * totalSupply,
                   reserveA * reserveB, snap.totalSupply * snap.totalSupply)

\* a withdrawal of part of the shares whose payout was rounded down, so that
\* the backing of the shares that remain has risen
C30_Witness ==
    /\ Succeeded("removeLiquidity")
    /\ SharesRemain
    /\ totalSupply < snap.totalSupply
    /\ reserveA * snap.totalSupply > snap.reserveA * totalSupply
    /\ reserveA < snap.reserveA

(***************************************************************************)
(* C26  Degenerate state.  Starting from a fresh pool, a deposit followed  *)
(* by the withdrawal of all shares can end with totalSupply = 0 while      *)
(* reserveA > 0 or reserveB > 0: a withdrawal of all shares leaves exactly *)
(* what it paid to the pool itself.  The state is not terminal: sync       *)
(* succeeds from it, and so does a swap against the leftover reserves.     *)
(***************************************************************************)
Degenerate(s) == s.totalSupply = 0 /\ (s.reserveA > 0 \/ s.reserveB > 0)
Current == [reserveA |-> reserveA, reserveB |-> reserveB, totalSupply |-> totalSupply]

C26_DegenerateStateNotTerminal ==
    /\ (Succeeded("removeLiquidity") /\ totalSupply = 0)
        => /\ reserveA = balA[Pool]
           /\ reserveB = balB[Pool]
           /\ Degenerate(Current) <=> last.to = Pool
           /\ last.to = Pool => (reserveA = snap.balA[Pool] /\ reserveB = snap.balB[Pool])
    /\ (Done("sync") /\ Degenerate(snap))
        => (last.ok /\ reserveA = balA[Pool] /\ reserveB = balB[Pool])
    /\ (Done("swapAToB") /\ Degenerate(snap) /\ last.args = <<1000, 0>>
            /\ snap.balA[Pool] > 0 /\ snap.balB[Pool] > 0
            /\ snap.balA[last.sender] >= 1000)
        => (last.ok /\ Degenerate(Current))

\* a swap has succeeded against the reserves that a deposit and the
\* withdrawal of all shares left in the pool
C26_Witness ==
    /\ Succeeded("swapAToB")
    /\ Degenerate(snap)
    /\ snap.reserveA > 1000
    /\ snap.reserveB > 1000
    /\ last.ret[1] > 0
    /\ Degenerate(Current)

(***************************************************************************)
(* C27  Resync points and events.  A successful addLiquidity,              *)
(* removeLiquidity or swap emits exactly: a Sync carrying the balances the *)
(* pool held on entry, a Sync carrying the final reserves, which are the   *)
(* pool's balances after its last transfer, and then its Mint, Burn or     *)
(* Swap event.  Every step that writes the reserves emits a Sync carrying  *)
(* the values stored, and a call that fails leaves no event.               *)
(***************************************************************************)
ClosingName(fn) ==
    CASE fn = "addLiquidity" -> "Mint"
      [] fn = "removeLiquidity" -> "Burn"
      [] OTHER -> "Swap"
ReservesWritten == reserveA' # reserveA \/ reserveB' # reserveB
Reverted == pc' = "done" /\ ~last'.ok
EmittedNow ==
    IF pc' = "xfer1" THEN frame'.events[Len(frame'.events)]
    ELSE IF last'.fn = "sync" THEN last'.events[1]
    ELSE last'.events[2]

C27_ResyncPointsAndEvents ==
    /\ [](\A fn \in GuardedFunctions :
            Succeeded(fn)
                => /\ Len(last.events) = 3
                   /\ last.events[1] = Sync(snap.balA[Pool], snap.balB[Pool])
                   /\ last.events[2] = Sync(reserveA, reserveB)
                   /\ reserveA = balA[Pool]
                   /\ reserveB = balB[Pool]
                   /\ last.events[3].name = ClosingName(fn)
                   /\ last.events[3].args[1] = last.sender)
    /\ [](Succeeded("sync") => last.events = <<Sync(balA[Pool], balB[Pool])>>)
    /\ []((pc = "done" /\ ~last.ok) => last.events = <<>>)
    /\ []((pc = "done" /\ last.fn \notin MutatingFunctions) => last.events = <<>>)
    /\ [][(ReservesWritten /\ ~Reverted)
            => EmittedNow = Sync(reserveA', reserveB')]_vars

\* a swap entered with stale reserves: its two Sync events differ from the
\* cached reserves it started with and from each other
C27_Witness ==
    /\ Succeeded("swapAToB")
    /\ last.events[1] # Sync(snap.reserveA, snap.reserveB)
    /\ last.events[1] # last.events[2]
    /\ last.events[3] = [name |-> "Swap",
                         args |-> <<last.sender, last.args[1], 0, 0, last.ret[1], last.to>>]

(***************************************************************************)
(* C32  Effect of sync().  Any account may call sync() in any state of the *)
(* pool; the call succeeds, stores the pool's two token balances as        *)
(* reserveA and reserveB, and leaves totalSupply, every share balance and  *)
(* every token balance as they were.  A second sync() made with no         *)
(* transfer in between stores the same values again.                       *)
(***************************************************************************)
SyncStep == pc = "idle" /\ pc' = "done" /\ last'.fn = "sync"
SyncCallable == \A sender \in Actors : ENABLED sync(sender)
SyncEffect ==
    /\ last'.ok
    /\ reserveA' = balA[Pool]
    /\ reserveB' = balB[Pool]
    /\ UNCHANGED <<totalSupply, balanceOf, balA, balB, status>>
SyncAgain == _update' = <<reserveA', reserveB'>>

C32_SyncEffect ==
    /\ []((pc = "idle" /\ ops < Budget) => SyncCallable)
    /\ [][SyncStep => (SyncEffect /\ SyncAgain)]_vars
    /\ [][(SyncStep /\ InSync) => UNCHANGED <<reserveA, reserveB>>]_vars

\* the second account has resynchronised a funded pool whose balances had
\* moved away from its reserves
C32_Witness ==
    /\ Succeeded("sync")
    /\ last.sender = "u2"
    /\ snap.totalSupply > 0
    /\ snap.reserveA # snap.balA[Pool]
    /\ reserveA = balA[Pool]
    /\ reserveB = balB[Pool]

(***************************************************************************)
(* C33  Burn limited to the caller's own shares.  removeLiquidity fails,   *)
(* burning nothing and moving no token, whenever the amount of shares      *)
(* exceeds the caller's own share balance (even when it does not exceed    *)
(* totalSupply) or totalSupply is 0.  A successful call burns the amount   *)
(* from the caller and from nobody else, whoever the recipient is.         *)
(***************************************************************************)
C33_BurnOwnSharesOnly ==
    Done("removeLiquidity") =>
        /\ (last.args[1] > snap.balanceOf[last.sender] \/ snap.totalSupply = 0)
              => (~last.ok /\ NothingChanged)
        /\ last.ok =>
              /\ balanceOf[last.sender] = snap.balanceOf[last.sender] - last.args[1]
              /\ totalSupply = snap.totalSupply - last.args[1]
              /\ \A a \in Actors \ {last.sender} : balanceOf[a] = snap.balanceOf[a]

\* a holder asked to burn more shares than they hold, though no more than
\* exist, with amounts that pass every other check, and was refused
C33_Witness ==
    /\ Done("removeLiquidity")
    /\ ~last.ok
    /\ last.err = "ERC20InsufficientBalance"
    /\ snap.balanceOf[last.sender] > 0
    /\ last.args[1] > snap.balanceOf[last.sender]
    /\ last.args[1] <= snap.totalSupply
    /\ last.to # last.sender

(***************************************************************************)
(* C34  A swap never empties a reserve.  Whenever _getAmountOut returns,   *)
(* its result is strictly smaller than reserveOut; so a successful swap    *)
(* pays out less than the pool held of the output token, and both          *)
(* reserves and both balances of the pool are positive after it.  The      *)
(* quote of getAmountOut obeys the same bound.                             *)
(***************************************************************************)
SwapDone == Succeeded("swapAToB") \/ Succeeded("swapBToA")
\* what the pool held of the output token when the swap was entered
HeldOut == IF last.fn = "swapAToB" THEN snap.balB[Pool] ELSE snap.balA[Pool]
\* the reserve a quote is made against
QuotedOut == IF last.args[2] THEN reserveB ELSE reserveA

C34_SwapKeepsReserves ==
    /\ SwapDone =>
          /\ last.args[1] > 0
          /\ last.ret[1] < HeldOut
          /\ reserveA > 0 /\ reserveB > 0
          /\ balA[Pool] > 0 /\ balB[Pool] > 0
    /\ Succeeded("getAmountOut") => last.ret[1] < QuotedOut

\* a swap of 1000 against a pool holding one unit of the output token
\* succeeded and left that unit in the pool
C34_Witness ==
    /\ SwapDone
    /\ HeldOut = 1
    /\ last.args[1] = 1000
    /\ last.ret[1] = 0
    /\ reserveA > 0
    /\ reserveB > 0

(***************************************************************************)
(* C31  Unfundable pool.  Once the pool has totalSupply = 0 and holds a    *)
(* non-zero balance of one of its tokens, every addLiquidity and every     *)
(* removeLiquidity fails, and every transaction leaves the pool in such a  *)
(* state again: totalSupply never becomes positive and the pool is never   *)
(* emptied by a withdrawal.                                                *)
(***************************************************************************)
Unfundable(s) == s.totalSupply = 0 /\ (s.balA[Pool] > 0 \/ s.balB[Pool] > 0)
LiquidityCall == last.fn \in {"addLiquidity", "removeLiquidity"}

C31_UnfundablePool ==
    (pc = "done" /\ Unfundable(snap)) =>
        /\ Unfundable(Snapshot)
        /\ LiquidityCall => (~last.ok /\ NothingChanged)
        /\ balA[Pool] >= snap.balA[Pool] \/ balB[Pool] >= snap.balB[Pool]

\* a deposit of 2000 and 2000 into a pool that never had shares and holds
\* both tokens was refused because it would mint nothing
C31_Witness ==
    /\ Done("addLiquidity")
    /\ Unfundable(snap)
    /\ snap.balA[Pool] > 0
    /\ snap.balB[Pool] > 0
    /\ last.args[1] = 2000
    /\ last.args[2] = 2000
    /\ last.err = "Insufficient liquidity minted"

(***************************************************************************)
(* C37  Integer square root.  For every y in the range checked, _sqrt(y)   *)
(* terminates and returns floor(sqrt(y)): the z with                       *)
(* z * z <= y < (z + 1) * (z + 1); _sqrt(0) = 0 and                        *)
(* _sqrt(1) = _sqrt(2) = _sqrt(3) = 1.                                     *)
(***************************************************************************)
IsFloorSqrt(z, y) == z >= 0 /\ z * z <= y /\ y < (z + 1) * (z + 1)
SqrtReturned == calc.pc = "return"
SqrtSmallCases ==
    /\ calc.y = 0 => calc.z = 0
    /\ calc.y \in {1, 2, 3} => calc.z = 1

C37_IntegerSquareRoot ==
    /\ [](SqrtReturned => /\ IsFloorSqrt(calc.z, calc.y)
                          /\ calc.z = _sqrt(calc.y)
                          /\ SqrtSmallCases)
    /\ <>SqrtReturned

\* the loop has run and returned 2000 for the first deposit of 2000 and 2000
C37_Witness ==
    /\ SqrtReturned
    /\ calc.y = 4000000
    /\ calc.z = 2000
    /\ calc.x >= calc.z

(***************************************************************************)
(* C35  The front end orders a pair as the pool does.  For two tokens of   *)
(* different address the hook's comparison of the lower-cased texts agrees *)
(* with the comparison of the addresses as numbers: getPoolAddress passes  *)
(* getPool the pair in the registry's order (token0, token1), swap calls   *)
(* swapAToB exactly when tokenIn is token0, the pool's tokenA, and         *)
(* swapBToA exactly when it is token1, and useSwapOutput passes            *)
(* isTokenA = TRUE to getAmountOut exactly when tokenIn is token0.         *)
(***************************************************************************)
\* the pair as the registry sorts it, and so as the pool stores it
RegistryOrder == SortTokens(addressOf(calc.tokenA), addressOf(calc.tokenB))
TokenInIsTokenA == addressOf(calc.tokenA) = RegistryOrder[1]
LookedUp == calc.getPoolArgs # <<>>

C35_FrontEndSwapDirection ==
    /\ isTokenAFirst(calc.tokenA, calc.tokenB) <=> addressOf(calc.tokenA) < addressOf(calc.tokenB)
    /\ LookedUp =>
          <<addressOf(calc.getPoolArgs[1]), addressOf(calc.getPoolArgs[2])>> = RegistryOrder
    /\ calc.pc = "written" =>
          /\ calc.functionName = "swapAToB" <=> TokenInIsTokenA
          /\ calc.functionName = "swapBToA" <=> ~TokenInIsTokenA
    /\ calc.pc = "rendered" => (calc.isTokenA <=> TokenInIsTokenA)

\* swap called swapBToA for a pair whose texts, compared as written, are in
\* the other order than their addresses
C35_Witness ==
    /\ calc.fn = "swap"
    /\ calc.pc = "written"
    /\ calc.functionName = "swapBToA"
    /\ StringLess(calc.tokenA, calc.tokenB)
    /\ addressOf(calc.tokenA) > addressOf(calc.tokenB)

(***************************************************************************)
(* C36  Bridge flow outcome.  Every call of bridge() that returns leaves   *)
(* isLoading = false and step success or error; step is success only when  *)
(* kit.bridge resolved and a receive hash was extracted, and then error is *)
(* null; when the wallet is not connected or the amount is not a positive  *)
(* number the call ends in error without a chain switch or a call of       *)
(* kit.bridge; reset() leaves the idle state with no hash and no error.    *)
(***************************************************************************)
\* the text is a decimal numeral, digits with at most one point
IsNumeral(str) ==
    /\ \E i \in DOMAIN str : InSeq(DecDigits, str[i])
    /\ \A i \in DOMAIN str : InSeq(DecDigits, str[i]) \/ str[i] = "."
    /\ \A i, j \in DOMAIN str : (str[i] = "." /\ str[j] = ".") => i = j
IsPositiveNumber(str) ==
    IsNumeral(str) /\ \E i \in DOMAIN str : InSeq(DecDigits, str[i]) /\ str[i] # "0"
\* the call of bridge() has returned and the state is the one it left
JustReturned == bridge.pc = "returned" /\ bridge.ran = "bridge"
RefusedAtOnce ==
    /\ bridge.state.step = "error"
    /\ bridge.call.switchCalls = 0
    /\ bridge.call.kitCalls = 0

C36_BridgeFlowOutcome ==
    /\ JustReturned =>
          /\ ~bridge.state.isLoading
          /\ bridge.state.step \in {"success", "error"}
    /\ bridge.state.step = "success" =>
          /\ bridge.call.resolved
          /\ bridge.call.extracted # Undefined
          /\ bridge.state.receiveTxHash = bridge.call.extracted
          /\ bridge.state.error = Null
    /\ (JustReturned /\ (~bridge.call.connected \/ ~IsPositiveNumber(bridge.call.amount)))
          => RefusedAtOnce
    /\ bridge.ran = "reset" => bridge.state = IdleState

====
